---- MODULE Spec2Model ----
(***************************************************************************)
(* Don Churro Sales Bot: the abandoned-cart recovery jobs and HTTP         *)
(* endpoints (backend/jobs.config.js, backend/http-functions.js) and the   *)
(* chat widget's intent dispatcher (public/chatWidget.js).                 *)
(*                                                                         *)
(* Time is counted in whole hours.  backend/salesBot.jsw is not part of    *)
(* the sources at hand; sendCartRecoveryEmail and trackAbandonedCart are   *)
(* modelled from the design document's description of the cart recovery    *)
(* state machine.                                                          *)
(***************************************************************************)
EXTENDS Integers, Sequences, FiniteSets, TLC

VARIABLES
    now,             \* Date.now(), in hours
    AbandonedCarts,  \* the "AbandonedCarts" collection: _id -> record
    pass,            \* the running invocations of the batch passes, per worker
    committed,       \* history: per cart, the scheduled jobs that delivered an email for it
    emailedRecovered,\* history: an email went out for a cart already recovered
    userInput,       \* the text handed to processUserInput
    customerId,      \* chatState.customerId
    response,        \* what processUserInput returned for userInput
    engineCall,      \* history: the backend call made for userInput
    engineArgs,      \* history: the arguments of that call
    engineOutcome,   \* history: what that call came back with
    ready,           \* initializeChatBot has run
    messages,        \* chatState.messages
    turns,           \* the user messages taken in, each with its handler's position
    trackCalls,      \* the chat_message texts trackCustomerInteraction was called with
    display,         \* what displayRecommendations last did
    sessionStart,    \* history: the length of chatState.messages when the session began
    sessionStore,    \* wix-storage session: salesBotSessionId and exitIntentShown
    interactions,    \* the interactions trackCustomerInteraction recorded for the pages
    page,            \* the page on display: its listener, and history of its events
    Customers,       \* the Customers collection: segment, valueScore and profile by _id
    scoringInputs,   \* what a customer's score is computed from (orders, interactions)
    OldRecords,      \* BrowsingHistory and CustomerInteractions: the records past ninety days
    DailyReports,    \* the number of reports in the DailyReports collection
    job,             \* the running invocation of a job of this part, if any
    changes,         \* history: how often the scoring inputs have changed
    changedSinceRun, \* history: the inputs changed since the last segmentation query
    cleanRunBefore,  \* history: the last segmentation run finished with no failure
    computedBefore,  \* history: the scores and segments that run computed
    webhook,         \* post_cartAbandoned: its last request, answer and calls
    panel,           \* chatState.isOpen, the widget's elements and the typing indicator
    scroll           \* setupScrollTracking: its closure, its listener's calls

cartVars == <<now, AbandonedCarts, pass, committed, emailedRecovered>>
chatVars == <<userInput, customerId, response, engineCall, engineArgs, engineOutcome>>
pageVars == <<sessionStore, interactions, page>>
widgetVars == <<ready, messages, turns, trackCalls, display, sessionStart, pageVars,
               panel>>
jobVars == <<Customers, scoringInputs, OldRecords, DailyReports, job, changes,
             changedSinceRun, cleanRunBefore, computedBefore>>
vars == <<cartVars, chatVars, widgetVars, jobVars, webhook, scroll>>

----------------------------------------------------------------------------
(* Bounds of the model *)

MaxCarts == 2
MaxTime == 50
NumWorkers == 2
MaxWords == 2
MaxTurns == 2
MaxCustomers == 3
MaxLevel == 4
MaxChanges == 2
MaxOld == 1
MaxReports == 1
MaxEdits == 1
MaxPageLoads == 2
MaxLeaves == 2
MaxSignals == 1
MaxBlanks == 2
MaxScrolls == 3

(* Program constants, in hours *)

OneHour == 1
TwentyFourHours == 24
FortyEightHours == 48
ProcessLimit == 100
ReminderLimit == 50
BulkLimit == 50
DefaultHoursOld == 1
MaxReminders == 2
NinetyDays == 2160
CleanCartsLimit == 500

CartIds == 1..MaxCarts
\* the ids of the carts there at the start and of those the webhook creates
StoredIds == 1..(MaxCarts + MaxSignals)
Workers == 1..NumWorkers
\* the clock is read in the first two hours of each day
Instants == {t \in 0..MaxTime : t % TwentyFourHours \in {0, 1}}
\* the instants the clock is read at over the retention period: the first
\* two days as above, then the ninetieth day and the hour after it
RetentionInstants == {0, 1, TwentyFourHours + 1, NinetyDays, NinetyDays + 1}
HoursOldInputs == {0, 2}
NoDate == -1
Transports == {"success", "failure", "throw"}
Kinds == {"processAbandonedCarts", "sendSecondReminder", "post_bulkRecovery"}
ScheduledJobs == {"processAbandonedCarts", "sendSecondReminder"}

----------------------------------------------------------------------------
(* wix-data query helpers *)

\* a set of ids as the sequence a query returns it in: newest record first
\* (ids are handed out in creation order)
RECURSIVE Descending(_)
Descending(S) ==
    IF S = {} THEN <<>>
    ELSE LET m == CHOOSE x \in S : \A y \in S : y <= x
         IN  <<m>> \o Descending(S \ {m})

\* .limit(n)
Limit(items, n) == IF Len(items) <= n THEN items ELSE SubSeq(items, 1, n)

\* the item a query returns for a stored record: the record with its _id
Item(id) == [_id |-> id] @@ AbandonedCarts[id]

\* .find(): the matching records, cut at the limit
Find(matching, n) ==
    LET s == Descending(matching)
    IN  Limit([i \in 1..Len(s) |-> Item(s[i])], n)

----------------------------------------------------------------------------
(* backend/salesBot.jsw *)

\* (variant: the recovered flag is not looked at)
sendCartRecoveryEmail_ignoringRecovered(id, transport) ==
    IF id \notin DOMAIN AbandonedCarts
          \/ AbandonedCarts[id].reminderCount >= 2
          \/ transport # "success"
    THEN [store |-> AbandonedCarts, success |-> FALSE,
          thrown |-> (transport = "throw"), emailed |-> FALSE]
    ELSE [store |-> [AbandonedCarts EXCEPT ![id] =
                        [@ EXCEPT !.emailSent = TRUE,
                                  !.reminderCount = @ + 1,
                                  !.lastReminderAt = now]],
          success |-> TRUE, thrown |-> FALSE, emailed |-> TRUE]

\* sendCartRecoveryEmail(abandonedCartId) under the given outcome of the
\* email transport: the store afterwards, the returned success flag, whether
\* the call threw, and whether an email went out.  A cart that is absent,
\* recovered or already at the reminder cap is refused without a send; a
\* delivered email sets emailSent, steps reminderCount and stamps
\* lastReminderAt; a failed delivery changes nothing.
sendCartRecoveryEmail(id, transport) ==
    IF id \notin DOMAIN AbandonedCarts
    THEN [store |-> AbandonedCarts, success |-> FALSE, thrown |-> FALSE, emailed |-> FALSE]
    ELSE IF AbandonedCarts[id].recovered
    THEN [store |-> AbandonedCarts, success |-> FALSE, thrown |-> FALSE, emailed |-> FALSE]
    ELSE IF AbandonedCarts[id].reminderCount >= MaxReminders
    THEN [store |-> AbandonedCarts, success |-> FALSE, thrown |-> FALSE, emailed |-> FALSE]
    ELSE IF transport = "throw"
    THEN [store |-> AbandonedCarts, success |-> FALSE, thrown |-> TRUE, emailed |-> FALSE]
    ELSE IF transport = "failure"
    THEN [store |-> AbandonedCarts, success |-> FALSE, thrown |-> FALSE, emailed |-> FALSE]
    ELSE [store |-> [AbandonedCarts EXCEPT ![id] =
                        [@ EXCEPT !.emailSent = TRUE,
                                  !.reminderCount = @ + 1,
                                  !.lastReminderAt = now]],
          success |-> TRUE, thrown |-> FALSE, emailed |-> TRUE]

\* the record a cart-abandonment signal creates
NewCart ==
    [abandonedAt |-> now, recovered |-> FALSE, emailSent |-> FALSE,
     reminderCount |-> 0, lastReminderAt |-> NoDate]

\* the _id the store gives the next record that is inserted
NextCartId == MaxCarts + webhook.created + 1

TrackOutcomes == {"success", "failure", "throws"}

\* what trackAbandonedCart returns when it stored nothing
NoResult == [success |-> FALSE, abandonedCartId |-> 0]

\* trackAbandonedCart(customerId, cartItems, cartTotal) under the given
\* outcome of its insert: the store afterwards, the returned result and
\* whether the call threw.  A successful call creates the cart's record and
\* returns its identifier.
trackAbandonedCart(cid, cartItems, cartTotal, outcome) ==
    IF outcome = "throws"
    THEN [store |-> AbandonedCarts, result |-> NoResult, thrown |-> TRUE]
    ELSE IF outcome = "failure"
    THEN [store |-> AbandonedCarts, result |-> NoResult, thrown |-> FALSE]
    ELSE [store |-> (NextCartId :> NewCart) @@ AbandonedCarts,
          result |-> [success |-> TRUE, abandonedCartId |-> NextCartId],
          thrown |-> FALSE]

\* the call finds the cart recovered
RefusedRecovered(id) ==
    id \in DOMAIN AbandonedCarts /\ AbandonedCarts[id].recovered

\* history of a call of sendCartRecoveryEmail with result r, made by `by`
LogEmail(r, id, by) ==
    /\ committed' =
            IF r.emailed /\ by \in ScheduledJobs
            THEN [committed EXCEPT ![id] = @ \cup {by}]
            ELSE committed
    /\ emailedRecovered' =
            (emailedRecovered \/ (r.emailed /\ AbandonedCarts[id].recovered))

----------------------------------------------------------------------------
(* backend/jobs.config.js and backend/http-functions.js: eligibility queries *)

\* (variant: without .eq("recovered", false))
FirstReminderQuery_anyRecovered(oneHourAgo, twentyFourHoursAgo) ==
    {id \in DOMAIN AbandonedCarts :
        /\ AbandonedCarts[id].abandonedAt >= twentyFourHoursAgo
        /\ AbandonedCarts[id].abandonedAt <= oneHourAgo
        /\ AbandonedCarts[id].emailSent = FALSE}

\* (variant: .lt in place of .le on the newer end of the window)
FirstReminderQuery_openEnd(oneHourAgo, twentyFourHoursAgo) ==
    {id \in DOMAIN AbandonedCarts :
        /\ AbandonedCarts[id].abandonedAt >= twentyFourHoursAgo
        /\ AbandonedCarts[id].abandonedAt < oneHourAgo
        /\ AbandonedCarts[id].emailSent = FALSE
        /\ AbandonedCarts[id].recovered = FALSE}

\* (variant: without .eq("emailSent", false))
FirstReminderQuery_anyEmailSent(oneHourAgo, twentyFourHoursAgo) ==
    {id \in DOMAIN AbandonedCarts :
        /\ AbandonedCarts[id].abandonedAt >= twentyFourHoursAgo
        /\ AbandonedCarts[id].abandonedAt <= oneHourAgo
        /\ AbandonedCarts[id].recovered = FALSE}

\* processAbandonedCarts: abandoned between 1 and 24 hours ago, not emailed
FirstReminderQuery(oneHourAgo, twentyFourHoursAgo) ==
    {id \in DOMAIN AbandonedCarts :
        /\ AbandonedCarts[id].abandonedAt >= twentyFourHoursAgo
        /\ AbandonedCarts[id].abandonedAt <= oneHourAgo
        /\ AbandonedCarts[id].emailSent = FALSE
        /\ AbandonedCarts[id].recovered = FALSE}

\* (variant: without .eq("reminderCount", 1))
SecondReminderQuery_anyCount(twentyFourHoursAgo, fortyEightHoursAgo) ==
    {id \in DOMAIN AbandonedCarts :
        /\ AbandonedCarts[id].lastReminderAt # NoDate
        /\ AbandonedCarts[id].lastReminderAt >= fortyEightHoursAgo
        /\ AbandonedCarts[id].lastReminderAt <= twentyFourHoursAgo
        /\ AbandonedCarts[id].recovered = FALSE}

\* sendSecondReminder: first email 24 to 48 hours ago
SecondReminderQuery(twentyFourHoursAgo, fortyEightHoursAgo) ==
    {id \in DOMAIN AbandonedCarts :
        /\ AbandonedCarts[id].lastReminderAt # NoDate
        /\ AbandonedCarts[id].lastReminderAt >= fortyEightHoursAgo
        /\ AbandonedCarts[id].lastReminderAt <= twentyFourHoursAgo
        /\ AbandonedCarts[id].recovered = FALSE
        /\ AbandonedCarts[id].reminderCount = 1}

\* post_bulkRecovery: abandoned at or before the cutoff, not emailed
BulkRecoveryQuery(cutoffTime) ==
    {id \in DOMAIN AbandonedCarts :
        /\ AbandonedCarts[id].abandonedAt <= cutoffTime
        /\ AbandonedCarts[id].emailSent = FALSE
        /\ AbandonedCarts[id].recovered = FALSE}

\* const hoursOld = body.hoursOld || 1
HoursOld(given) == IF given = 0 THEN DefaultHoursOld ELSE given

----------------------------------------------------------------------------
(* The passes *)

IdlePass ==
    [kind |-> "idle", pc |-> "idle", items |-> <<>>, idx |-> 0,
     processed |-> 0, successCount |-> 0, failCount |-> 0, errors |-> <<>>,
     queryNow |-> 0,
     \* history of the pass
     calls |-> <<>>, sent |-> <<>>, refused |-> {}, conc |-> {},
     committedAtStart |-> {}]

Running(p) == pass[p].pc = "loop"

\* the carts a pass kind has delivered and committed an email for so far
Committed(kind) == {id \in DOMAIN committed : kind \in committed[id]}

\* a pass that has just run its query
Started(p, kind, items) ==
    [IdlePass EXCEPT
        !.kind = kind,
        !.pc = IF items = <<>> THEN "done" ELSE "loop",
        !.items = items,
        !.queryNow = now,
        !.conc = {q \in Workers \ {p} : Running(q)},
        !.committedAtStart = Committed(kind)]

\* a pass whose query (or request body) threw
Thrown(kind) == [IdlePass EXCEPT !.kind = kind, !.pc = "thrown"]

Begin(p, rec) ==
    pass' = [q \in Workers |->
                IF q = p THEN rec ELSE [pass[q] EXCEPT !.conc = @ \ {p}]]

\* (variant: the loop does not move on)
NextIndex_stuck(idx, ok) == idx

\* for (const cart of items): the position after one iteration
NextIndex(idx, ok) == idx + 1

\* (variant: the loop ends before the last selected cart)
AfterIteration_oneShort(rec, idx) ==
    IF idx + 1 >= Len(rec.items) THEN "done" ELSE "loop"

\* the loop ends after the last selected cart
AfterIteration(rec, idx) ==
    IF idx >= Len(rec.items) THEN "done" ELSE "loop"

CartInit ==
    /\ now = 0
    /\ AbandonedCarts = [id \in CartIds |-> NewCart]
    /\ pass = [p \in Workers |-> IdlePass]
    /\ committed = [id \in StoredIds |-> {}]
    /\ emailedRecovered = FALSE

\* every finished invocation has handed its result to its caller
Settled == \A q \in Workers : pass[q].pc \in {"idle", "loop"}

\* an invocation runs on the lowest worker that is idle
Free(p) ==
    /\ Settled
    /\ pass[p].pc = "idle"
    /\ \A q \in Workers : q < p => pass[q].pc # "idle"

----------------------------------------------------------------------------
(* Scheduled job: processAbandonedCarts *)

\* Date.now() cutoffs, the query, and the return when nothing was found
processAbandonedCarts_query(p) ==
    /\ Free(p)
    /\ Begin(p, Started(p, "processAbandonedCarts",
                Find(FirstReminderQuery(now - OneHour, now - TwentyFourHours),
                     ProcessLimit)))
    /\ UNCHANGED <<now, AbandonedCarts, committed, emailedRecovered>>

\* the query rejects: the job logs and rethrows
processAbandonedCarts_queryFails(p) ==
    /\ Free(p)
    /\ Begin(p, Thrown("processAbandonedCarts"))
    /\ UNCHANGED <<now, AbandonedCarts, committed, emailedRecovered>>

\* one iteration of the loop, and the return after the last one
processAbandonedCarts_send(p) ==
    /\ Settled
    /\ Running(p)
    /\ pass[p].kind = "processAbandonedCarts"
    /\ \E transport \in Transports :
        LET rec  == pass[p]
            cart == rec.items[rec.idx + 1]
            r    == sendCartRecoveryEmail(cart._id, transport)
            idx  == NextIndex(rec.idx, r.success)
        IN  /\ AbandonedCarts' = r.store
            /\ LogEmail(r, cart._id, rec.kind)
            /\ pass' = [pass EXCEPT ![p] =
                    [rec EXCEPT
                        !.idx = idx,
                        !.successCount = IF r.success THEN @ + 1 ELSE @,
                        !.failCount = IF r.success THEN @ ELSE @ + 1,
                        !.processed = Len(rec.items),
                        !.pc = AfterIteration(rec, idx),
                        !.calls = Append(@, cart._id),
                        !.sent = IF r.emailed THEN Append(@, cart._id) ELSE @,
                        !.refused = IF RefusedRecovered(cart._id)
                                    THEN @ \cup {cart._id} ELSE @]]
    /\ UNCHANGED <<now>>

----------------------------------------------------------------------------
(* Scheduled job: sendSecondReminder *)

sendSecondReminder_query(p) ==
    /\ Free(p)
    /\ Begin(p, Started(p, "sendSecondReminder",
                Find(SecondReminderQuery(now - TwentyFourHours, now - FortyEightHours),
                     ReminderLimit)))
    /\ UNCHANGED <<now, AbandonedCarts, committed, emailedRecovered>>

sendSecondReminder_queryFails(p) ==
    /\ Free(p)
    /\ Begin(p, Thrown("sendSecondReminder"))
    /\ UNCHANGED <<now, AbandonedCarts, committed, emailedRecovered>>

\* one iteration: the result of the call is not inspected, every call that
\* returns counts as sent
sendSecondReminder_send(p) ==
    /\ Settled
    /\ Running(p)
    /\ pass[p].kind = "sendSecondReminder"
    /\ \E transport \in Transports :
        LET rec  == pass[p]
            cart == rec.items[rec.idx + 1]
            r    == sendCartRecoveryEmail(cart._id, transport)
            idx  == NextIndex(rec.idx, ~r.thrown)
        IN  /\ AbandonedCarts' = r.store
            /\ LogEmail(r, cart._id, rec.kind)
            /\ pass' = [pass EXCEPT ![p] =
                    [rec EXCEPT
                        !.idx = idx,
                        !.successCount = IF r.thrown THEN @ ELSE @ + 1,
                        !.pc = AfterIteration(rec, idx),
                        !.calls = Append(@, cart._id),
                        !.sent = IF r.emailed THEN Append(@, cart._id) ELSE @,
                        !.refused = IF RefusedRecovered(cart._id)
                                    THEN @ \cup {cart._id} ELSE @]]
    /\ UNCHANGED <<now>>

----------------------------------------------------------------------------
(* HTTP endpoint: post_bulkRecovery *)

post_bulkRecovery_query(p) ==
    /\ Free(p)
    /\ \E given \in HoursOldInputs :
            Begin(p, Started(p, "post_bulkRecovery",
                Find(BulkRecoveryQuery(now - HoursOld(given)), BulkLimit)))
    /\ UNCHANGED <<now, AbandonedCarts, committed, emailedRecovered>>

\* request.body.json() or the query rejects: serverError
post_bulkRecovery_queryFails(p) ==
    /\ Free(p)
    /\ Begin(p, Thrown("post_bulkRecovery"))
    /\ UNCHANGED <<now, AbandonedCarts, committed, emailedRecovered>>

post_bulkRecovery_send(p) ==
    /\ Settled
    /\ Running(p)
    /\ pass[p].kind = "post_bulkRecovery"
    /\ \E transport \in Transports :
        LET rec  == pass[p]
            cart == rec.items[rec.idx + 1]
            r    == sendCartRecoveryEmail(cart._id, transport)
            idx  == NextIndex(rec.idx, r.success)
        IN  /\ AbandonedCarts' = r.store
            /\ LogEmail(r, cart._id, rec.kind)
            /\ pass' = [pass EXCEPT ![p] =
                    [rec EXCEPT
                        !.idx = idx,
                        !.processed = @ + 1,
                        !.successCount = IF r.success THEN @ + 1 ELSE @,
                        !.failCount = IF r.success THEN @ ELSE @ + 1,
                        !.errors = IF r.success THEN @ ELSE Append(@, cart._id),
                        !.pc = AfterIteration(rec, idx),
                        !.calls = Append(@, cart._id),
                        !.sent = IF r.emailed THEN Append(@, cart._id) ELSE @,
                        !.refused = IF RefusedRecovered(cart._id)
                                    THEN @ \cup {cart._id} ELSE @]]
    /\ UNCHANGED <<now>>

----------------------------------------------------------------------------
(* HTTP endpoints answered in one step *)

\* the HTTP status post_sendRecoveryEmail answers with
RecoveryEmailStatus(r) ==
    IF r.thrown THEN "serverError" ELSE IF r.success THEN "ok" ELSE "badRequest"

\* a body with an abandonedCartId (one without is answered with badRequest
\* and changes nothing); MaxCarts + 1 is the id of no cart stored at the start
post_sendRecoveryEmail ==
    /\ Settled
    /\ \E id \in 1..(MaxCarts + 1), transport \in Transports :
        LET r == sendCartRecoveryEmail(id, transport)
        IN  /\ RecoveryEmailStatus(r) \in {"ok", "badRequest", "serverError"}
            /\ AbandonedCarts' = r.store
            /\ LogEmail(r, id, "post_sendRecoveryEmail")
            /\ UNCHANGED <<now, pass>>

----------------------------------------------------------------------------
(* HTTP endpoint: post_cartAbandoned *)

\* values of the fields of a request body, by their JSON text; "absent" is
\* a body without the field
JsonCustomerIds == {"absent", "", "cust_1"}
JsonCartItems == {"absent", "null", "[]", "[item]"}
JsonTotals == {[given |-> FALSE, value |-> 0], [given |-> TRUE, value |-> 0],
               [given |-> TRUE, value |-> 5]}

\* a request whose body does not parse has no fields
Requests ==
    {q \in [parsed : BOOLEAN, customerId : JsonCustomerIds,
            cartItems : JsonCartItems, cartTotal : JsonTotals] :
        ~q.parsed => /\ q.customerId = "absent"
                     /\ q.cartItems = "absent"
                     /\ ~q.cartTotal.given}

NoRequest ==
    [parsed |-> FALSE, customerId |-> "absent", cartItems |-> "absent",
     cartTotal |-> [given |-> FALSE, value |-> 0]]

\* (variant: only a missing field is refused)
Falsy_onlyAbsent(v) == v = "absent"

\* !value: undefined, null and the empty string are falsy, an array is not
Falsy(v) == v \in {"absent", "null", ""}

\* body.cartTotal || 0
OrZero(total) == IF total.given /\ total.value # 0 THEN total.value ELSE 0

\* the HTTP status for what trackAbandonedCart came back with
CartAbandonedStatus(r) ==
    IF r.thrown THEN "serverError" ELSE IF r.result.success THEN "ok" ELSE "serverError"

WebhookInit ==
    webhook = [created |-> 0, request |-> NoRequest, outcome |-> "none",
               status |-> "none", body |-> "none", result |-> NoResult,
               calls |-> <<>>, wrote |-> FALSE]

\* the answer of the endpoint, with the history of the request
Answer(request, outcome, status, body, calls, result, store) ==
    /\ AbandonedCarts' = store
    /\ webhook' = [created |-> IF result.success THEN webhook.created + 1
                                ELSE webhook.created,
                   request |-> request, outcome |-> outcome,
                   status |-> status, body |-> body, result |-> result,
                   calls |-> calls, wrote |-> (store # AbandonedCarts)]

\* the whole handler for one request; outcome is what trackAbandonedCart
\* does if it is called
post_cartAbandonedWith(request, outcome) ==
    /\ Settled
    /\ webhook.created < MaxSignals
    /\ IF ~request.parsed
       THEN Answer(request, "none", "serverError", "internalError", <<>>,
                   NoResult, AbandonedCarts)
       ELSE IF Falsy(request.customerId) \/ Falsy(request.cartItems)
       THEN Answer(request, "none", "badRequest", "missingFields", <<>>,
                   NoResult, AbandonedCarts)
       ELSE LET args == <<request.customerId, request.cartItems,
                          OrZero(request.cartTotal)>>
                r    == trackAbandonedCart(args[1], args[2], args[3], outcome)
            IN  Answer(request, outcome, CartAbandonedStatus(r),
                       IF r.thrown THEN "internalError" ELSE "result",
                       <<args>>, r.result, r.store)
    /\ UNCHANGED <<now, pass, committed, emailedRecovered>>

post_cartAbandoned ==
    \E request \in Requests, outcome \in TrackOutcomes :
        post_cartAbandonedWith(request, outcome)

----------------------------------------------------------------------------
(* Environment *)

\* the customer completes checkout
Checkout ==
    \E id \in DOMAIN AbandonedCarts :
        /\ Settled
        /\ ~AbandonedCarts[id].recovered
        /\ AbandonedCarts' = [AbandonedCarts EXCEPT ![id].recovered = TRUE]
        /\ UNCHANGED <<now, pass, committed, emailedRecovered>>

\* a running pass is cut off part-way through its page
Interrupt(p) ==
    /\ Settled
    /\ Running(p)
    /\ pass' = [pass EXCEPT ![p].pc = "interrupted"]
    /\ UNCHANGED <<now, AbandonedCarts, committed, emailedRecovered>>

\* the caller takes the summary (or the rethrown error) of a finished pass
Reap(p) ==
    /\ pass[p].pc \in {"done", "thrown", "interrupted"}
    /\ pass' = [pass EXCEPT ![p] = IdlePass]
    /\ UNCHANGED <<now, AbandonedCarts, committed, emailedRecovered>>

\* the clock over the retention period: on to the next instant it is read at
TickFar ==
    \E t \in RetentionInstants :
        /\ Settled
        /\ \A p \in Workers : ~Running(p)
        /\ t > now
        /\ \A u \in RetentionInstants : u > now => t <= u
        /\ now' = t
        /\ UNCHANGED <<AbandonedCarts, pass, committed, emailedRecovered>>

\* the clock moves on to the next instant it is read at; a pass takes far
\* less than an hour, none is running across such a step
Tick ==
    \E t \in Instants :
        /\ Settled
        /\ \A p \in Workers : ~Running(p)
        /\ t > now
        /\ \A u \in Instants : u > now => t <= u
        /\ now' = t
        /\ UNCHANGED <<AbandonedCarts, pass, committed, emailedRecovered>>

----------------------------------------------------------------------------
(* public/chatWidget.js: texts as sequences of characters *)

Letters == <<"a", "b", "c", "d", "e", "f", "g", "h", "i", "j", "k", "l", "m",
             "n", "o", "p", "q", "r", "s", "t", "u", "v", "w", "x", "y", "z">>
Capitals == <<"A", "B", "C", "D", "E", "F", "G", "H", "I", "J", "K", "L", "M",
              "N", "O", "P", "Q", "R", "S", "T", "U", "V", "W", "X", "Y", "Z">>
Digits == {"0", "1", "2", "3", "4", "5", "6", "7", "8", "9"}

\* String.prototype.toLowerCase
LowerChar(ch) ==
    IF \E k \in 1..Len(Capitals) : Capitals[k] = ch
    THEN Letters[CHOOSE k \in 1..Len(Capitals) : Capitals[k] = ch]
    ELSE ch
toLowerCase(s) == [k \in 1..Len(s) |-> LowerChar(s[k])]

\* \w, under the i flag
WordChar(ch) ==
    \/ \E k \in 1..Len(Letters) : Letters[k] = ch \/ Capitals[k] = ch
    \/ ch \in Digits
    \/ ch = "_"

\* \b between s[i] and s[i+1]
WordBoundary(s, i) ==
    (i >= 1 /\ WordChar(s[i])) # (i < Len(s) /\ WordChar(s[i + 1]))

\* w is in s right after position i; letters compare without case
OccursAt(s, w, i) ==
    /\ i + Len(w) <= Len(s)
    /\ \A k \in 1..Len(w) : LowerChar(s[i + k]) = w[k]

\* /^(a|b|...)/i
MatchesAtStart(s, alternatives) == \E w \in alternatives : OccursAt(s, w, 0)

\* /\b(a|b|...)\b/i
MatchesWord(s, alternatives) ==
    \E w \in alternatives : \E i \in 0..Len(s) :
        /\ WordBoundary(s, i)
        /\ OccursAt(s, w, i)
        /\ WordBoundary(s, i + Len(w))

\* /\b(a|b|...)\b.*\b(c|d|...)/i
MatchesWordThenPrefix(s, first, second) ==
    \E w \in first : \E i \in 0..Len(s) :
        /\ WordBoundary(s, i)
        /\ OccursAt(s, w, i)
        /\ WordBoundary(s, i + Len(w))
        /\ \E v \in second : \E j \in (i + Len(w))..Len(s) :
              WordBoundary(s, j) /\ OccursAt(s, v, j)

greeting_alternatives ==
    {<<"h", "i">>,
     <<"h", "e", "l", "l", "o">>,
     <<"h", "e", "y">>,
     <<"h", "o", "l", "a">>,
     <<"b", "u", "e", "n", "o", "s", " ", "d", "i", "a", "s">>,
     <<"g", "o", "o", "d", " ", "m", "o", "r", "n", "i", "n", "g">>,
     <<"g", "o", "o", "d", " ", "a", "f", "t", "e", "r", "n", "o", "o", "n">>}

recommendations_alternatives ==
    {<<"r", "e", "c", "o", "m", "m", "e", "n", "d">>,
     <<"s", "u", "g", "g", "e", "s", "t">>,
     <<"b", "e", "s", "t">>,
     <<"p", "o", "p", "u", "l", "a", "r">>,
     <<"t", "r", "e", "n", "d", "i", "n", "g">>,
     <<"t", "o", "p">>}

discount_alternatives ==
    {<<"d", "i", "s", "c", "o", "u", "n", "t">>,
     <<"c", "o", "u", "p", "o", "n">>,
     <<"p", "r", "o", "m", "o">>,
     <<"o", "f", "f", "e", "r">>,
     <<"d", "e", "a", "l">>,
     <<"s", "a", "l", "e">>,
     <<"c", "o", "d", "e">>}

help_alternatives ==
    {<<"h", "e", "l", "p">>,
     <<"s", "u", "p", "p", "o", "r", "t">>,
     <<"q", "u", "e", "s", "t", "i", "o", "n">>,
     <<"p", "r", "o", "b", "l", "e", "m">>,
     <<"i", "s", "s", "u", "e">>}

cart_alternatives ==
    {<<"c", "a", "r", "t">>,
     <<"b", "a", "s", "k", "e", "t">>,
     <<"c", "h", "e", "c", "k", "o", "u", "t">>,
     <<"b", "u", "y">>,
     <<"p", "u", "r", "c", "h", "a", "s", "e">>,
     <<"o", "r", "d", "e", "r">>}

price_alternatives ==
    {<<"p", "r", "i", "c", "e">>,
     <<"c", "o", "s", "t">>,
     <<"h", "o", "w", " ", "m", "u", "c", "h">>,
     <<"e", "x", "p", "e", "n", "s", "i", "v", "e">>,
     <<"c", "h", "e", "a", "p">>}

shipping_alternatives ==
    {<<"s", "h", "i", "p">>,
     <<"d", "e", "l", "i", "v", "e", "r">>,
     <<"s", "h", "i", "p", "p", "i", "n", "g">>,
     <<"d", "e", "l", "i", "v", "e", "r", "y">>,
     <<"w", "h", "e", "n">>,
     <<"a", "r", "r", "i", "v", "e">>}

hours_alternatives ==
    {<<"h", "o", "u", "r">>,
     <<"o", "p", "e", "n">>,
     <<"c", "l", "o", "s", "e">>,
     <<"t", "i", "m", "e">>,
     <<"s", "c", "h", "e", "d", "u", "l", "e">>}

location_alternatives ==
    {<<"l", "o", "c", "a", "t", "i", "o", "n">>,
     <<"a", "d", "d", "r", "e", "s", "s">>,
     <<"w", "h", "e", "r", "e">>,
     <<"f", "i", "n", "d", " ", "y", "o", "u">>,
     <<"s", "t", "o", "r", "e">>}

thanks_alternatives ==
    {<<"t", "h", "a", "n", "k">>,
     <<"t", "h", "a", "n", "k", "s">>,
     <<"g", "r", "a", "c", "i", "a", "s">>,
     <<"a", "p", "p", "r", "e", "c", "i", "a", "t", "e">>}

bye_alternatives ==
    {<<"b", "y", "e">>,
     <<"g", "o", "o", "d", "b", "y", "e">>,
     <<"a", "d", "i", "o", "s">>,
     <<"s", "e", "e", " ", "y", "o", "u">>,
     <<"l", "a", "t", "e", "r">>}

productSearch_first ==
    {<<"l", "o", "o", "k", "i", "n", "g", " ", "f", "o", "r">>,
     <<"f", "i", "n", "d">>,
     <<"s", "e", "a", "r", "c", "h">>,
     <<"w", "a", "n", "t">>,
     <<"n", "e", "e", "d">>,
     <<"s", "h", "o", "w", " ", "m", "e">>}

productSearch_second ==
    {<<"p", "r", "o", "d", "u", "c", "t">>,
     <<"i", "t", "e", "m">>,
     <<"c", "h", "u", "r", "r", "o">>,
     <<"f", "o", "o", "d">>,
     <<"m", "e", "n", "u">>}

\* INTENT_PATTERNS[name].test(s)
INTENT_PATTERNS(name, s) ==
    CASE name = "greeting" -> MatchesAtStart(s, greeting_alternatives)
      [] name = "productSearch" ->
            MatchesWordThenPrefix(s, productSearch_first, productSearch_second)
      [] name = "recommendations" -> MatchesWord(s, recommendations_alternatives)
      [] name = "discount" -> MatchesWord(s, discount_alternatives)
      [] name = "help" -> MatchesWord(s, help_alternatives)
      [] name = "cart" -> MatchesWord(s, cart_alternatives)
      [] name = "price" -> MatchesWord(s, price_alternatives)
      [] name = "shipping" -> MatchesWord(s, shipping_alternatives)
      [] name = "hours" -> MatchesWord(s, hours_alternatives)
      [] name = "location" -> MatchesWord(s, location_alternatives)
      [] name = "thanks" -> MatchesWord(s, thanks_alternatives)
      [] name = "bye" -> MatchesWord(s, bye_alternatives)

\* RESPONSES and the texts written out in the handlers, by their opening words
RESPONSES_greeting ==
    <<"Hola! How can I help you today?",
      "Welcome! Looking for something delicious?",
      "Hi there! Ready to discover our amazing churros?">>
RESPONSES_thanks ==
    <<"You're welcome! Is there anything else I can help with?",
      "My pleasure! Let me know if you need anything else!",
      "De nada! Happy to help!">>
RESPONSES_bye ==
    <<"Goodbye! Thanks for visiting Don Churro!",
      "Adios! Come back soon!",
      "Take care! Hope to see you again!">>
RESPONSES_shipping == "We offer fast shipping!"
RESPONSES_hours == "We're here for you!"
RESPONSES_location == "You can find all our store locations on our Locations page!"
RESPONSES_fallback ==
    <<"I'm not sure I understood that. Could you rephrase?",
      "Let me connect you with our support team for that question.",
      "That's a great question! For detailed assistance, please contact our support.">>
CartText == "Ready to checkout?"
HelpText == "I can help you with:"
ProductsText == "Here are some products you might love!"
MenuText == "Check out our full menu for all our delicious options!"
OfferText == "Great news! Here's a special offer just for you:"
NoOfferText == "I don't have any special offers right now"
DealsText == "Check our promotions page for current deals!"

TextReply(text) == [type |-> "text", text |-> text, data |-> "none"]

\* getRandomResponse(responses): any of the entries
getRandomResponse(responses) ==
    {TextReply(responses[k]) : k \in 1..Len(responses)}

\* what a backend call can come back with
EngineOutcomes == {"some", "empty", "unsuccessful", "throws"}

\* customerId.startsWith('guest_')
Guest(id) == id \in {"guest_session_1"}

\* the number of products the chat asks for
ChatRecommendationLimit == 3

\* (variant: a session with any customerId asks for personalized products)
PersonalizedFor_anyId(id) == id # "null"

\* chatState.customerId && !chatState.customerId.startsWith('guest_')
PersonalizedFor(id) == id # "null" /\ ~Guest(id)

\* (variant: an empty list is shown as products)
ShowsProducts_evenEmpty(outcome) == outcome \in {"some", "empty"}

\* products.success && products.recommendations.length > 0
ShowsProducts(outcome) == outcome = "some"

\* handleProductRecommendation, as the set of its possible results: the
\* reply, the backend call made, its arguments and what it came back with
handleProductRecommendation ==
    LET call == IF PersonalizedFor(customerId)
                THEN "getPersonalizedRecommendations"
                ELSE "getTrendingProducts"
        args == IF PersonalizedFor(customerId)
                THEN <<customerId, ChatRecommendationLimit>>
                ELSE <<ChatRecommendationLimit>>
    IN  {[reply |-> IF ShowsProducts(outcome)
                    THEN [type |-> "products", text |-> ProductsText,
                          data |-> "recommendations"]
                    ELSE TextReply(MenuText),
          call |-> call, args |-> args, outcome |-> outcome] :
            outcome \in EngineOutcomes}

\* what getPersonalizedOffer can come back with: an offer has no list
OfferOutcomes == EngineOutcomes \ {"empty"}

\* handleDiscountRequest, as the set of its possible results
handleDiscountRequest ==
    {[reply |-> CASE outcome = "some" ->
                        [type |-> "offer", text |-> OfferText, data |-> "offer"]
                  [] outcome = "unsuccessful" -> TextReply(NoOfferText)
                  [] outcome = "throws" -> TextReply(DealsText),
      call |-> "getPersonalizedOffer", args |-> <<customerId>>,
      outcome |-> outcome] : outcome \in OfferOutcomes}

NoCall(replies) ==
    {[reply |-> r, call |-> "none", args |-> <<>>, outcome |-> "none"] :
        r \in replies}

\* (variant: the help test moved ahead of the recommendation test)
processUserInput_helpFirst(input) ==
    LET lowerInput == toLowerCase(input)
    IN  IF INTENT_PATTERNS("greeting", lowerInput)
        THEN NoCall(getRandomResponse(RESPONSES_greeting))
        ELSE IF INTENT_PATTERNS("help", lowerInput)
        THEN NoCall({TextReply(HelpText)})
        ELSE IF INTENT_PATTERNS("recommendations", lowerInput)
                \/ INTENT_PATTERNS("productSearch", lowerInput)
        THEN handleProductRecommendation
        ELSE IF INTENT_PATTERNS("discount", lowerInput)
        THEN handleDiscountRequest
        ELSE IF INTENT_PATTERNS("cart", lowerInput)
        THEN NoCall({TextReply(CartText)})
        ELSE IF INTENT_PATTERNS("shipping", lowerInput)
        THEN NoCall({TextReply(RESPONSES_shipping)})
        ELSE IF INTENT_PATTERNS("hours", lowerInput)
        THEN NoCall({TextReply(RESPONSES_hours)})
        ELSE IF INTENT_PATTERNS("location", lowerInput)
        THEN NoCall({TextReply(RESPONSES_location)})
        ELSE IF INTENT_PATTERNS("thanks", lowerInput)
        THEN NoCall(getRandomResponse(RESPONSES_thanks))
        ELSE IF INTENT_PATTERNS("bye", lowerInput)
        THEN NoCall(getRandomResponse(RESPONSES_bye))
        ELSE NoCall(getRandomResponse(RESPONSES_fallback))

\* (variant: a message that matches nothing is answered with recommendations)
processUserInput_suggestingOnNoMatch(input) ==
    LET lowerInput == toLowerCase(input)
    IN  IF INTENT_PATTERNS("greeting", lowerInput)
        THEN NoCall(getRandomResponse(RESPONSES_greeting))
        ELSE IF INTENT_PATTERNS("recommendations", lowerInput)
                \/ INTENT_PATTERNS("productSearch", lowerInput)
        THEN handleProductRecommendation
        ELSE IF INTENT_PATTERNS("discount", lowerInput)
        THEN handleDiscountRequest
        ELSE IF INTENT_PATTERNS("cart", lowerInput)
        THEN NoCall({TextReply(CartText)})
        ELSE IF INTENT_PATTERNS("shipping", lowerInput)
        THEN NoCall({TextReply(RESPONSES_shipping)})
        ELSE IF INTENT_PATTERNS("hours", lowerInput)
        THEN NoCall({TextReply(RESPONSES_hours)})
        ELSE IF INTENT_PATTERNS("location", lowerInput)
        THEN NoCall({TextReply(RESPONSES_location)})
        ELSE IF INTENT_PATTERNS("thanks", lowerInput)
        THEN NoCall(getRandomResponse(RESPONSES_thanks))
        ELSE IF INTENT_PATTERNS("bye", lowerInput)
        THEN NoCall(getRandomResponse(RESPONSES_bye))
        ELSE IF INTENT_PATTERNS("help", lowerInput)
        THEN NoCall({TextReply(HelpText)})
        ELSE handleProductRecommendation

\* processUserInput(input), as the set of its possible results
processUserInput(input) ==
    LET lowerInput == toLowerCase(input)
    IN  IF INTENT_PATTERNS("greeting", lowerInput)
        THEN NoCall(getRandomResponse(RESPONSES_greeting))
        ELSE IF INTENT_PATTERNS("recommendations", lowerInput)
                \/ INTENT_PATTERNS("productSearch", lowerInput)
        THEN handleProductRecommendation
        ELSE IF INTENT_PATTERNS("discount", lowerInput)
        THEN handleDiscountRequest
        ELSE IF INTENT_PATTERNS("cart", lowerInput)
        THEN NoCall({TextReply(CartText)})
        ELSE IF INTENT_PATTERNS("shipping", lowerInput)
        THEN NoCall({TextReply(RESPONSES_shipping)})
        ELSE IF INTENT_PATTERNS("hours", lowerInput)
        THEN NoCall({TextReply(RESPONSES_hours)})
        ELSE IF INTENT_PATTERNS("location", lowerInput)
        THEN NoCall({TextReply(RESPONSES_location)})
        ELSE IF INTENT_PATTERNS("thanks", lowerInput)
        THEN NoCall(getRandomResponse(RESPONSES_thanks))
        ELSE IF INTENT_PATTERNS("bye", lowerInput)
        THEN NoCall(getRandomResponse(RESPONSES_bye))
        ELSE IF INTENT_PATTERNS("help", lowerInput)
        THEN NoCall({TextReply(HelpText)})
        ELSE NoCall(getRandomResponse(RESPONSES_fallback))

----------------------------------------------------------------------------
(* The messages the dispatcher is run on *)

Vocabulary ==
    {<<"h", "i">>,
    <<"H", "e", "l", "l", "o">>,
    <<"h", "i", "s", "t", "o", "r", "y">>,
    <<"r", "e", "c", "o", "m", "m", "e", "n", "d">>,
    <<"h", "e", "l", "p">>,
    <<"d", "i", "s", "c", "o", "u", "n", "t">>,
    <<"d", "i", "s", "c", "o", "u", "n", "t", "s", "?">>,
    <<"f", "i", "n", "d">>,
    <<"c", "h", "u", "r", "r", "o", "s">>,
    <<"c", "a", "r", "t">>,
    <<"s", "h", "i", "p", "p", "i", "n", "g">>,
    <<"o", "p", "e", "n">>,
    <<"w", "h", "e", "r", "e">>,
    <<"t", "h", "a", "n", "k", "s">>,
    <<"b", "y", "e">>,
    <<"p", "r", "i", "c", "e">>,
    <<"g", "o", "o", "d">>,
    <<"m", "o", "r", "n", "i", "n", "g">>}

RECURSIVE Phrases(_)
Phrases(n) ==
    IF n = 1 THEN Vocabulary
    ELSE {p \o <<" ">> \o w : p \in Phrases(n - 1), w \in Vocabulary}

Inputs == UNION {Phrases(n) : n \in 1..MaxWords}
CustomerIds == {"null", "guest_session_1", "member_1"}

NoReply == [type |-> "none", text |-> "", data |-> "none"]

ChatInit ==
    /\ userInput = <<>>
    /\ customerId = "null"
    /\ response = NoReply
    /\ engineCall = "none"
    /\ engineArgs = <<>>
    /\ engineOutcome = "none"

\* sendMessage reads the message typed into the input box
Receive ==
    /\ userInput = <<>>
    /\ userInput' \in Inputs
    /\ customerId' \in CustomerIds
    /\ response' = NoReply
    /\ engineCall' = "none"
    /\ engineArgs' = <<>>
    /\ engineOutcome' = "none"

\* the dispatcher answers it
Dispatch ==
    /\ userInput # <<>>
    /\ response = NoReply
    /\ \E out \in processUserInput(userInput) :
          /\ response' = out.reply
          /\ engineCall' = out.call
          /\ engineArgs' = out.args
          /\ engineOutcome' = out.outcome
    /\ UNCHANGED <<userInput, customerId>>

\* sendMessage shows the reply; the widget waits for the next message
ShowReply ==
    /\ response # NoReply
    /\ userInput' = <<>>
    /\ response' = NoReply
    /\ engineCall' = "none"
    /\ engineArgs' = <<>>
    /\ engineOutcome' = "none"
    /\ UNCHANGED customerId

----------------------------------------------------------------------------
(* public/chatWidget.js: the widget around the dispatcher *)

\* what is typed into #chatInput in this part of the model
TypedTexts ==
    {<<"r", "e", "c", "o", "m", "m", "e", "n", "d">>,
     <<"d", "i", "s", "c", "o", "u", "n", "t">>,
     <<"c", "h", "u", "r", "r", "o", "s">>}

QuickActions == {"products", "deals", "help"}

\* the user message a quick action writes into the conversation
QuickActionProductsText ==
    <<"S", "h", "o", "w", " ", "m", "e", " ", "y", "o", "u", "r", " ", "b",
      "e", "s", "t", " ", "p", "r", "o", "d", "u", "c", "t", "s">>
QuickActionDealsText ==
    <<"D", "o", " ", "y", "o", "u", " ", "h", "a", "v", "e", " ", "a", "n",
      "y", " ", "d", "i", "s", "c", "o", "u", "n", "t", "s", "?">>
QuickActionHelpText ==
    <<"I", " ", "n", "e", "e", "d", " ", "h", "e", "l", "p">>
QuickActionText(action) ==
    CASE action = "products" -> QuickActionProductsText
      [] action = "deals" -> QuickActionDealsText
      [] action = "help" -> QuickActionHelpText

\* what String.prototype.trim() takes off both ends
WhiteSpace == {" ", "\t", "\n"}

\* (variant: the value is taken as it is)
trim_nothing(s) == s

\* value.trim()
RECURSIVE trim(_)
trim(s) ==
    IF s = <<>> THEN s
    ELSE IF Head(s) \in WhiteSpace THEN trim(Tail(s))
    ELSE IF s[Len(s)] \in WhiteSpace THEN trim(SubSeq(s, 1, Len(s) - 1))
    ELSE s

\* the values #chatInput has when sendMessage is called
TypedValues ==
    TypedTexts \cup {<<>>, <<" ">>, <<" ", "\t">>,
                     <<" ", "d", "i", "s", "c", "o", "u", "n", "t", "\n">>}

\* chatState.addMessage(sender, text, type, data)
addMessage(log, sender, text, type) ==
    Append(log, [sender |-> sender, text |-> text, type |-> type])

\* BOT_CONFIG.greeting, by its opening words
GreetingText == "Hola! Welcome to Don Churro!"

NotDisplayed ==
    [surface |-> "none", customer |-> "null", calls |-> <<>>,
     outcome |-> "none", shown |-> "none"]

WidgetInit ==
    /\ ready = FALSE
    /\ messages = <<>>
    /\ turns = <<>>
    /\ trackCalls = <<>>
    /\ display = NotDisplayed
    /\ sessionStart = 0
    /\ panel = [isOpen |-> FALSE, chatWidget |-> "hidden", chatToggleBtn |-> "shown",
                typingIndicator |-> "hidden",
                \* history
                lastClick |-> "none", openedTracked |-> FALSE, blanks |-> 0]

\* session.getItem('salesBotSessionId') || <a new id>
SessionIdOrNew == 
    IF sessionStore.salesBotSessionId # "null"
    THEN sessionStore.salesBotSessionId
    ELSE "session_1"

\* what currentMember.getMember() resolves to
Members == {"null", "member_1"}

\* `guest_${sessionId}`
GuestId(sessionId) ==
    IF sessionId = "null" THEN "guest_null" ELSE "guest_session_1"

\* member ? member._id : `guest_${sessionId}`
CustomerFor(member, sessionId) ==
    IF member # "null" THEN member ELSE GuestId(sessionId)

\* the body of initializeChatBot for the member found: the session id is
\* read or made and stored, customerId is set, and the greeting is added to
\* chatState.messages
initializeChatBotFor(member) ==
    /\ ready' = TRUE
    /\ sessionStore' = [sessionStore EXCEPT !.salesBotSessionId = SessionIdOrNew]
    /\ customerId' = CustomerFor(member, SessionIdOrNew)
    /\ messages' = addMessage(messages, "bot", GreetingText, "text")
    /\ sessionStart' = Len(messages)
    /\ UNCHANGED <<userInput, response, engineCall, engineArgs, engineOutcome,
                   turns, trackCalls, display, interactions, page, panel>>

\* initializeChatBot when the page is made ready
initializeChatBot ==
    /\ ~ready
    /\ \E member \in Members : initializeChatBotFor(member)

\* initializeChatBot is run once more while chatState is still in place, for
\* a visitor with another customerId (the visitor logs in or out)
initializeChatBot_again ==
    /\ ready
    /\ sessionStart = 0
    /\ \E member \in Members :
          /\ CustomerFor(member, SessionIdOrNew) # customerId
          /\ initializeChatBotFor(member)

\* the number the next timer that is set gets: timers of the same delay
\* fire in the order they were set in
NextTimer == Cardinality({k \in 1..Len(turns) : turns[k].timer # 0}) + 1

\* showTypingIndicator / hideTypingIndicator
Typing(p, visibility) == [p EXCEPT !.typingIndicator = visibility]

\* sendMessage up to its first await: the trimmed value of #chatInput is
\* added as the user message, the typing indicator is shown and
\* trackCustomerInteraction(customerId, 'chat_message', ...) is called
sendMessage_begin ==
    /\ ready
    /\ Len(turns) < MaxTurns
    /\ \E value \in TypedValues :
          LET text == trim(value)
          IN  /\ text # <<>>
              /\ messages' = addMessage(messages, "user", text, "text")
              /\ trackCalls' = Append(trackCalls, text)
              /\ turns' = Append(turns, [via |-> "typed", input |-> text,
                                         pc |-> "tracking", timer |-> 0,
                                         calls |-> <<>>, outcome |-> "none",
                                         shown |-> "none", replies |-> 0, at |-> 0])
    /\ panel' = Typing(panel, "shown")
    /\ UNCHANGED <<chatVars, ready, display, sessionStart>>

\* sendMessage for a value of #chatInput that is empty once trimmed: the
\* return at the top of the function
sendMessage_blank ==
    /\ ready
    /\ panel.blanks < MaxBlanks
    /\ \E value \in TypedValues : trim(value) = <<>>
    /\ panel' = [panel EXCEPT !.blanks = @ + 1]
    /\ UNCHANGED <<chatVars, ready, messages, turns, trackCalls, display,
                   sessionStart>>

\* the awaited trackCustomerInteraction call resolves: sendMessage goes on
\* and sets the typing timer
trackCustomerInteraction_resolves(i) ==
    /\ turns[i].pc = "tracking"
    /\ turns' = [turns EXCEPT ![i].pc = "timer", ![i].timer = NextTimer]
    /\ UNCHANGED <<chatVars, ready, messages, trackCalls, display, sessionStart,
                   panel>>

\* the awaited call rejects: sendMessage ends with that rejection, the lines
\* after the await are not run
trackCustomerInteraction_rejects(i) ==
    /\ turns[i].pc = "tracking"
    /\ turns' = [turns EXCEPT ![i].pc = "rejected"]
    /\ UNCHANGED <<chatVars, ready, messages, trackCalls, display, sessionStart,
                   panel>>

\* the awaited call is one that never settles
trackCustomerInteraction_hangs(i) ==
    /\ turns[i].pc = "tracking"
    /\ turns' = [turns EXCEPT ![i].pc = "hung"]
    /\ UNCHANGED <<chatVars, ready, messages, trackCalls, display, sessionStart,
                   panel>>

\* handleQuickAction up to setTimeout: the user message is added, the
\* typing indicator is shown and the typing timer is set
handleQuickAction_begin ==
    /\ ready
    /\ Len(turns) < MaxTurns
    /\ \E action \in QuickActions :
          /\ messages' = addMessage(messages, "user", QuickActionText(action), "text")
          /\ turns' = Append(turns, [via |-> "quick", input |-> action,
                                     pc |-> "timer", timer |-> NextTimer,
                                     calls |-> <<>>, outcome |-> "none",
                                     shown |-> "none", replies |-> 0, at |-> 0])
    /\ panel' = Typing(panel, "shown")
    /\ UNCHANGED <<chatVars, ready, trackCalls, display, sessionStart>>

\* the results the timer callback of a turn can have
TurnResults(turn) ==
    CASE turn.via = "typed" -> processUserInput(turn.input)
      [] turn.via = "quick" /\ turn.input = "products" -> handleProductRecommendation
      [] turn.via = "quick" /\ turn.input = "deals" -> handleDiscountRequest
      [] turn.via = "quick" /\ turn.input = "help" -> NoCall({TextReply(HelpText)})

\* which products a reply shows: those the given call returned
Shown(out) == IF out.reply.type = "products" THEN out.call ELSE "none"

\* (variant: the branch for offers is missing)
AddsReply_noOffer(turn, reply) ==
    turn.via = "quick" \/ reply.type \in {"text", "products"}

\* whether the callback adds a bot message for the reply: sendMessage has a
\* branch for each of the types text, products and offer, handleQuickAction
\* ends in an else
AddsReply(turn, reply) ==
    turn.via = "quick" \/ reply.type \in {"text", "products", "offer"}

\* the end of a timer callback with the result out: the bot message
WithReply(i, out) ==
    /\ messages' = IF AddsReply(turns[i], out.reply)
                   THEN addMessage(messages, "bot", out.reply.text, out.reply.type)
                   ELSE messages
    /\ turns' = [turns EXCEPT ![i] =
                    [@ EXCEPT !.pc = "replied",
                              !.calls = IF out.call = "none" THEN <<>>
                                        ELSE <<out.call>>,
                              !.outcome = out.outcome,
                              !.shown = Shown(out),
                              !.replies = IF AddsReply(turns[i], out.reply)
                                          THEN @ + 1 ELSE @,
                              !.at = IF AddsReply(turns[i], out.reply)
                                     THEN Len(messages) + 1 ELSE @]]

\* the earliest timer that was set and has not fired is this turn's
FiresNext(i) ==
    /\ turns[i].pc = "timer"
    /\ \A k \in 1..Len(turns) :
          turns[k].pc = "timer" => turns[i].timer <= turns[k].timer

\* the typing timer fires: the indicator is hidden and the reply is
\* computed; a reply that takes no backend call is added as a bot message
\* in the same task, one that takes a call is awaited
timer_fires(i) ==
    /\ FiresNext(i)
    /\ panel' = Typing(panel, "hidden")
    /\ \E out \in TurnResults(turns[i]) :
          IF out.call = "none"
          THEN WithReply(i, out)
          ELSE /\ turns' = [turns EXCEPT ![i].pc = "calling"]
               /\ UNCHANGED messages
    /\ UNCHANGED <<chatVars, ready, trackCalls, display, sessionStart>>

\* the backend call of the reply settles: the callback goes on after its
\* await and adds the bot message
timer_resumes(i) ==
    /\ turns[i].pc = "calling"
    /\ \E out \in TurnResults(turns[i]) :
          /\ out.call # "none"
          /\ WithReply(i, out)
    /\ UNCHANGED <<chatVars, ready, trackCalls, display, sessionStart, panel>>

----------------------------------------------------------------------------
(* public/chatWidget.js: opening and closing the widget *)

\* (variant: the toggle button stays as it is)
Closed_widgetOnly(p) == [p EXCEPT !.isOpen = FALSE, !.chatWidget = "hidden"]

\* the body of closeChat
Closed(p) ==
    [p EXCEPT !.isOpen = FALSE, !.chatWidget = "hidden", !.chatToggleBtn = "shown"]

\* a click on #chatToggleBtn
toggleChat ==
    /\ ready
    /\ panel' = IF ~panel.isOpen
                THEN [panel EXCEPT !.isOpen = TRUE, !.chatWidget = "shown",
                                   !.chatToggleBtn = "hidden",
                                   !.openedTracked = TRUE, !.lastClick = "toggle"]
                ELSE [Closed([panel EXCEPT !.isOpen = FALSE])
                        EXCEPT !.lastClick = "toggle"]
    /\ UNCHANGED <<chatVars, ready, messages, turns, trackCalls, display,
                   sessionStart>>

\* a click on #chatCloseBtn
closeChat ==
    /\ ready
    /\ panel' = [Closed(panel) EXCEPT !.lastClick = "close"]
    /\ UNCHANGED <<chatVars, ready, messages, turns, trackCalls, display,
                   sessionStart>>

----------------------------------------------------------------------------
(* public/salesBotClient.js: the session, tracking and the exit-intent popup *)

NoListener == [customerId |-> "none", exitIntentShown |-> FALSE]

\* const scrollThresholds = [25, 50, 75, 100]
scrollThresholds == <<25, 50, 75, 100>>

\* no scroll listener is registered
NoScroll ==
    [registered |-> FALSE, customerId |-> "none", maxScrollDepth |-> 0,
     trackedThresholds |-> {}, listeners |-> <<>>,
     \* history: the depths trackCustomerInteraction was called with, the
     \* deepest scroll position of an event, the number of events
     recorded |-> <<>>, deepest |-> 0, events |-> 0]

\* setupScrollTracking(customerId, sessionId): the closure of the listener
setupScrollTracking(id) ==
    [NoScroll EXCEPT !.registered = TRUE, !.customerId = id]

PageInit ==
    /\ sessionStore = [salesBotSessionId |-> "null", exitIntentShown |-> FALSE]
    /\ interactions = {}
    /\ page = [loads |-> 1, salesBot |-> FALSE, listener |-> NoListener,
               leaves |-> 0, popups |-> 0]
    /\ scroll = NoScroll

\* trackCustomerInteraction(customerId, type, ...) has stored the event
Recorded(id, type) == interactions \cup {[customerId |-> id, type |-> type]}

CallOutcomes == {"ok", "throws"}

\* setupExitIntentListener(customerId): nothing when the session has its
\* exitIntentShown item, or on a mobile form factor; else a mouseout listener
\* that keeps customerId and the value read from the item, which is not set
setupExitIntentListener(id, mobile) ==
    IF sessionStore.exitIntentShown \/ mobile
    THEN page.listener
    ELSE [customerId |-> id, exitIntentShown |-> sessionStore.exitIntentShown]

\* initializeSalesBot, once for a page: the session id is read or made and
\* stored; with the member found and the page view tracked, the exit-intent
\* listener is set up; an exception of either ends the function
initializeSalesBot ==
    /\ ~page.salesBot
    /\ \E member \in Members, found \in CallOutcomes, tracked \in CallOutcomes,
          mobile \in BOOLEAN :
          LET id == CustomerFor(member, SessionIdOrNew)
              ok == found = "ok" /\ tracked = "ok"
          IN  /\ sessionStore' = [sessionStore EXCEPT
                                    !.salesBotSessionId = SessionIdOrNew]
              /\ interactions' = IF ok THEN Recorded(id, "page_view")
                                 ELSE interactions
              /\ page' = [page EXCEPT
                            !.salesBot = TRUE,
                            !.listener = IF ok
                                         THEN setupExitIntentListener(id, mobile)
                                         ELSE @]
              /\ scroll' = IF ok THEN setupScrollTracking(id) ELSE scroll

\* trackProductView and trackAddToCart: the customerId is the member's id or
\* is made from the stored session id, whatever getItem returns
trackView(type) ==
    /\ \E member \in Members, tracked \in CallOutcomes :
          interactions' =
              IF tracked = "ok"
              THEN Recorded(CustomerFor(member, sessionStore.salesBotSessionId), type)
              ELSE interactions
    /\ UNCHANGED <<sessionStore, page, scroll>>

trackProductView == trackView("product_view")

trackAddToCart == trackView("add_to_cart")

\* a mouseout event at the top edge of the page (e.clientY <= 0) reaches the
\* listener, which tests the exitIntentShown value it was set up with: the
\* session item is set and showExitIntentPopup opens the lightbox and tracks
\* it when an offer came back
mouseout ==
    /\ page.listener # NoListener
    /\ page.leaves < MaxLeaves
    /\ \E offer \in OfferOutcomes, tracked \in CallOutcomes :
          LET fires == ~page.listener.exitIntentShown
              shown == fires /\ offer = "some"
          IN  /\ sessionStore' = [sessionStore EXCEPT
                                    !.exitIntentShown = @ \/ fires]
              /\ page' = [page EXCEPT
                            !.leaves = @ + 1,
                            !.popups = IF shown THEN @ + 1 ELSE @]
              /\ interactions' =
                    IF shown /\ tracked = "ok"
                    THEN Recorded(page.listener.customerId, "exit_intent_popup_shown")
                    ELSE interactions
    /\ UNCHANGED scroll

\* the visitor goes to another page of the site: a new document, the page
\* code runs again
PageLoad ==
    /\ page.loads < MaxPageLoads
    /\ page' = [page EXCEPT !.loads = @ + 1, !.salesBot = FALSE,
                            !.listener = NoListener]
    /\ scroll' = NoScroll
    /\ UNCHANGED <<sessionStore, interactions>>

----------------------------------------------------------------------------
(* public/salesBotClient.js: scroll depth tracking *)

\* Math.round(scrollY / (scrollHeight - innerHeight) * 100) at the scroll
\* events of this part of the model
ScrollPercents == {0, 30, 50, 80, 100}

\* (variant: a threshold is tracked whenever the depth is past it)
ShouldTrack_again(threshold, maxScrollDepth, tracked) ==
    maxScrollDepth >= threshold

\* maxScrollDepth >= threshold && !trackedThresholds.has(threshold)
ShouldTrack(threshold, maxScrollDepth, tracked) ==
    maxScrollDepth >= threshold /\ threshold \notin tracked

\* the for loop from position k on: the position of the next threshold it
\* tracks, 0 if it runs to its end
NextThreshold(k, maxScrollDepth, tracked) ==
    LET S == {j \in k..Len(scrollThresholds) :
                ShouldTrack(scrollThresholds[j], maxScrollDepth, tracked)}
    IN  IF S = {} THEN 0 ELSE CHOOSE j \in S : \A m \in S : j <= m

\* the listener's loop goes on from position k: up to the next call of
\* trackCustomerInteraction, which it awaits, or to its end
LoopFrom(s, k, invocation) ==
    LET j == NextThreshold(k, s.maxScrollDepth, s.trackedThresholds)
    IN  IF j = 0
        THEN [s EXCEPT !.listeners =
                  IF invocation = 0 THEN @
                  ELSE [@ EXCEPT ![invocation].pc = "done"]]
        ELSE [s EXCEPT
                !.trackedThresholds = @ \cup {scrollThresholds[j]},
                !.recorded = Append(@, scrollThresholds[j]),
                !.listeners =
                    IF invocation = 0
                    THEN Append(@, [pc |-> "awaiting", at |-> j])
                    ELSE [@ EXCEPT ![invocation].at = j]]

\* a scroll event reaches the listener
scrollEvent ==
    /\ scroll.registered
    /\ scroll.events < MaxScrolls
    /\ \E scrollPercent \in ScrollPercents :
          LET seen == [scroll EXCEPT
                         !.events = @ + 1,
                         !.deepest = IF scrollPercent > @ THEN scrollPercent ELSE @]
          IN  scroll' =
                IF scrollPercent > scroll.maxScrollDepth
                THEN LoopFrom([seen EXCEPT !.maxScrollDepth = scrollPercent], 1, 0)
                ELSE seen
    /\ UNCHANGED <<sessionStore, interactions, page>>

\* the awaited trackCustomerInteraction call of a listener resolves: its
\* loop goes on with the next threshold
scrollTracked_resolves(i) ==
    /\ scroll.listeners[i].pc = "awaiting"
    /\ scroll' = LoopFrom(scroll, scroll.listeners[i].at + 1, i)
    /\ UNCHANGED <<sessionStore, interactions, page>>

\* the awaited call rejects: the listener ends with that rejection
scrollTracked_rejects(i) ==
    /\ scroll.listeners[i].pc = "awaiting"
    /\ scroll' = [scroll EXCEPT !.listeners[i].pc = "rejected"]
    /\ UNCHANGED <<sessionStore, interactions, page>>

----------------------------------------------------------------------------
(* public/salesBotClient.js: displayRecommendations *)

\* the number of products a recommendation repeater asks for
DisplayRecommendationLimit == 6

\* displayRecommendations($w, repeaterId, customerId), as the set of its
\* possible results: the calls made, what the call came back with and whose
\* products the repeater shows
displayRecommendations(id) ==
    LET call == IF id # "null" THEN "getPersonalizedRecommendations"
                ELSE "getTrendingProducts"
    IN  {[surface |-> "displayRecommendations", customer |-> id,
          calls |-> <<call>>,
          outcome |-> outcome,
          shown |-> IF ShowsProducts(outcome) THEN call ELSE "none"] :
            outcome \in EngineOutcomes}

\* the page shows its recommendation repeater, once per page view
DisplayRecommendations ==
    /\ display = NotDisplayed
    /\ \E id \in CustomerIds : display' \in displayRecommendations(id)
    /\ UNCHANGED <<chatVars, ready, messages, turns, trackCalls, sessionStart,
                   panel>>

----------------------------------------------------------------------------
(* backend/jobs.config.js: updateCustomerSegments *)

\* .limit(1000) of the Customers query, scaled down so that a collection
\* larger than one page is within the bounds of the model
SegmentPageLimit == 2

CustomerRecordIds == 1..MaxCustomers
InputLevels == 0..MaxLevel
Segments == {"New", "Regular", "Loyal", "VIP"}

\* the score a customer's inputs add up to
Score(inputs) == inputs

\* the tier boundaries; the scores from VipFrom on share the top tier
RegularFrom == 1
LoyalFrom == 2
VipFrom == 3

\* the tier a score falls in
SegmentOf(score) ==
    IF score < RegularFrom THEN "New"
    ELSE IF score < LoyalFrom THEN "Regular"
    ELSE IF score < VipFrom THEN "Loyal"
    ELSE "VIP"

ScoreOutcomes == {"success", "unsuccessful", "throws"}
StoreOutcomes == {"ok", "throws"}

\* getCustomerValueScore(customerId) under the given outcome
getCustomerValueScore(id, outcome) ==
    IF outcome = "success"
    THEN [success |-> TRUE, score |-> Score(scoringInputs[id]),
          segment |-> SegmentOf(Score(scoringInputs[id]))]
    ELSE [success |-> FALSE, score |-> 0, segment |-> "none"]

\* wixData.query("Customers").limit(n).find()
FindCustomers(n) ==
    LET s == Descending(DOMAIN Customers)
    IN  Limit([i \in 1..Len(s) |-> [_id |-> s[i]] @@ Customers[s[i]]], n)

IdleJob ==
    [name |-> "none", pc |-> "idle", items |-> <<>>, idx |-> 0, updated |-> 0,
     phase |-> 0, deleted |-> <<0, 0, 0>>,
     \* history of the run
     itemFailed |-> FALSE, handled |-> 0, sameWrites |-> 0,
     afterCleanRun |-> FALSE, computed |-> {}, clobbered |-> {}]

JobsInit ==
    /\ Customers = [id \in CustomerRecordIds |->
                        [segment |-> SegmentOf(Score(0)), valueScore |-> Score(0),
                         profile |-> 0]]
    /\ scoringInputs = [id \in CustomerRecordIds |-> 0]
    /\ OldRecords = [c \in 1..2 |-> 1..MaxOld]
    /\ DailyReports = 0
    /\ job = IdleJob
    /\ changes = 0
    /\ changedSinceRun = FALSE
    /\ cleanRunBefore = FALSE
    /\ computedBefore = {}

\* an order or an interaction changes what a customer's score is computed from
ChangeInputs ==
    /\ changes < MaxChanges
    /\ \E id \in CustomerRecordIds, level \in InputLevels :
          /\ level # scoringInputs[id]
          /\ scoringInputs' = [scoringInputs EXCEPT ![id] = level]
    /\ changes' = changes + 1
    /\ changedSinceRun' = TRUE
    /\ UNCHANGED <<Customers, OldRecords, DailyReports, job, cleanRunBefore,
                   computedBefore>>

\* another writer (the customer, the shop's back office) changes a field of
\* a customer record that the segmentation job does not compute
EditProfile ==
    /\ \E id \in CustomerRecordIds :
          /\ Customers[id].profile < MaxEdits
          /\ Customers' = [Customers EXCEPT ![id].profile = @ + 1]
    /\ UNCHANGED <<scoringInputs, OldRecords, DailyReports, job, changes,
                   changedSinceRun, cleanRunBefore, computedBefore>>

\* the query of a run, and the return when the collection is empty
updateCustomerSegments_query ==
    /\ job.pc = "idle"
    /\ LET items == FindCustomers(SegmentPageLimit)
       IN  job' = [IdleJob EXCEPT
                      !.name = "updateCustomerSegments",
                      !.pc = IF items = <<>> THEN "done" ELSE "loop",
                      !.items = items,
                      !.afterCleanRun = cleanRunBefore /\ ~changedSinceRun]
    /\ changedSinceRun' = FALSE
    /\ UNCHANGED <<Customers, scoringInputs, OldRecords, DailyReports, changes,
                   cleanRunBefore, computedBefore>>

\* the query throws: logged and thrown on to the caller
updateCustomerSegments_queryFails ==
    /\ job.pc = "idle"
    /\ job' = [IdleJob EXCEPT !.name = "updateCustomerSegments", !.pc = "thrown"]
    /\ UNCHANGED <<Customers, scoringInputs, OldRecords, DailyReports, changes,
                   changedSinceRun, cleanRunBefore, computedBefore>>

\* (variant: every scored customer is written)
NeedsUpdate_always(valueScore, customer) == valueScore.success

\* valueScore.success && customer.segment !== valueScore.segment
NeedsUpdate(valueScore, customer) ==
    valueScore.success /\ customer.segment # valueScore.segment

\* { ...customer, segment, valueScore, lastSegmentUpdate }: the item as the
\* query returned it, with the computed fields put in; wixData.update stores
\* it in place of the record with that _id
SegmentUpdate(customer, valueScore) ==
    [segment |-> valueScore.segment, valueScore |-> valueScore.score,
     profile |-> customer.profile]

\* one iteration of the loop: the score, and the update where one is due;
\* an exception of either is logged and the loop goes on
updateCustomerSegments_item(scored, stored) ==
    /\ job.name = "updateCustomerSegments"
    /\ job.pc = "loop"
    /\ LET customer   == job.items[job.idx + 1]
           valueScore == getCustomerValueScore(customer._id, scored)
           due        == scored # "throws" /\ NeedsUpdate(valueScore, customer)
           written    == due /\ stored = "ok"
           failed     == scored # "success" \/ (due /\ stored = "throws")
           idx        == job.idx + 1
       IN  /\ stored = "throws" => due
           /\ Customers' =
                IF written
                THEN [Customers EXCEPT ![customer._id] =
                        SegmentUpdate(customer, valueScore)]
                ELSE Customers
           /\ job' = [job EXCEPT
                        !.idx = idx,
                        !.pc = IF idx >= Len(job.items) THEN "done" ELSE "loop",
                        !.updated = IF written THEN @ + 1 ELSE @,
                        !.handled = @ + 1,
                        !.itemFailed = @ \/ failed,
                        !.sameWrites =
                            IF written /\ Customers[customer._id].segment
                                            = valueScore.segment
                            THEN @ + 1 ELSE @,
                        !.clobbered =
                            IF written /\ Customers[customer._id].profile
                                            # customer.profile
                            THEN @ \cup {customer._id} ELSE @,
                        !.computed =
                            IF valueScore.success
                            THEN @ \cup {<<customer._id, valueScore.score,
                                           valueScore.segment>>}
                            ELSE @]
    /\ UNCHANGED <<scoringInputs, OldRecords, DailyReports, changes,
                   changedSinceRun, cleanRunBefore, computedBefore>>

\* the caller takes what the job returned, or the error it threw
JobReturns ==
    /\ job.pc \in {"done", "thrown"}
    /\ job' = IdleJob
    /\ IF job.name = "updateCustomerSegments"
       THEN /\ cleanRunBefore' = (job.pc = "done" /\ ~job.itemFailed)
            /\ computedBefore' = job.computed
       ELSE UNCHANGED <<cleanRunBefore, computedBefore>>
    /\ UNCHANGED <<Customers, scoringInputs, OldRecords, DailyReports, changes,
                   changedSinceRun>>

----------------------------------------------------------------------------
(* backend/jobs.config.js: cleanOldData and generateDailySalesReport *)

\* the collections cleanOldData goes through, in its order
CleanedCollections == <<"BrowsingHistory", "CustomerInteractions", "AbandonedCarts">>

\* the job is about to run the query of its next collection
AtCleanQuery ==
    \/ job.pc = "idle"
    \/ job.name = "cleanOldData" /\ job.pc = "query"

\* where cleanOldData goes after the last record of a collection
AfterCollection(phase) == IF phase = Len(CleanedCollections) THEN "done" ELSE "query"

\* (variant: without .eq("recovered", true))
CleanCartsQuery_anyRecovered(ninetyDaysAgo) ==
    {id \in DOMAIN AbandonedCarts :
        AbandonedCarts[id].abandonedAt < ninetyDaysAgo}

\* the AbandonedCarts query: recovered carts abandoned before the cutoff
CleanCartsQuery(ninetyDaysAgo) ==
    {id \in DOMAIN AbandonedCarts :
        /\ AbandonedCarts[id].abandonedAt < ninetyDaysAgo
        /\ AbandonedCarts[id].recovered = TRUE}

\* the ids a collection's query returns
CleanQuery(phase) ==
    IF CleanedCollections[phase] = "AbandonedCarts"
    THEN Limit(Descending(CleanCartsQuery(now - NinetyDays)), CleanCartsLimit)
    ELSE Descending(OldRecords[phase])

\* the query of the next collection for records older than ninety days
cleanOldData_query ==
    /\ AtCleanQuery
    /\ LET phase == job.phase + 1
           items == CleanQuery(phase)
       IN  job' = [job EXCEPT
                      !.name = "cleanOldData",
                      !.phase = phase,
                      !.items = items,
                      !.idx = 0,
                      !.pc = IF items = <<>> THEN AfterCollection(phase) ELSE "loop"]
    /\ UNCHANGED <<Customers, scoringInputs, OldRecords, DailyReports, changes,
                   changedSinceRun, cleanRunBefore, computedBefore>>

\* a query throws: logged and thrown on to the caller
cleanOldData_queryFails ==
    /\ AtCleanQuery
    /\ job' = [job EXCEPT !.name = "cleanOldData", !.pc = "thrown"]
    /\ UNCHANGED <<Customers, scoringInputs, OldRecords, DailyReports, changes,
                   changedSinceRun, cleanRunBefore, computedBefore>>

\* wixData.remove of the next record of the page
cleanOldData_remove ==
    /\ job.name = "cleanOldData"
    /\ job.pc = "loop"
    /\ LET record == job.items[job.idx + 1]
           idx    == job.idx + 1
       IN  /\ IF CleanedCollections[job.phase] = "AbandonedCarts"
              THEN /\ AbandonedCarts' =
                        [id \in DOMAIN AbandonedCarts \ {record} |-> AbandonedCarts[id]]
                   /\ UNCHANGED OldRecords
              ELSE /\ OldRecords' = [OldRecords EXCEPT ![job.phase] = @ \ {record}]
                   /\ UNCHANGED AbandonedCarts
           /\ job' = [job EXCEPT
                        !.idx = idx,
                        !.handled = @ + 1,
                        !.deleted[job.phase] = @ + 1,
                        !.pc = IF idx >= Len(job.items)
                               THEN AfterCollection(job.phase) ELSE "loop"]
    /\ UNCHANGED <<Customers, scoringInputs, DailyReports, changes,
                   changedSinceRun, cleanRunBefore, computedBefore>>

\* wixData.remove throws: the loops have no try of their own, the exception
\* reaches the catch of the job and is thrown on
cleanOldData_removeFails ==
    /\ job.name = "cleanOldData"
    /\ job.pc = "loop"
    /\ job' = [job EXCEPT !.pc = "thrown", !.itemFailed = TRUE]
    /\ UNCHANGED <<Customers, scoringInputs, OldRecords, DailyReports, changes,
                   changedSinceRun, cleanRunBefore, computedBefore>>

\* the two Orders queries, the metrics and the insert of the report
generateDailySalesReport ==
    /\ job.pc = "idle"
    /\ DailyReports < MaxReports
    /\ DailyReports' = DailyReports + 1
    /\ job' = [IdleJob EXCEPT !.name = "generateDailySalesReport", !.pc = "done"]
    /\ UNCHANGED <<Customers, scoringInputs, OldRecords, changes,
                   changedSinceRun, cleanRunBefore, computedBefore>>

\* a query or the insert throws: logged and thrown on to the caller
generateDailySalesReport_fails ==
    /\ job.pc = "idle"
    /\ job' = [IdleJob EXCEPT !.name = "generateDailySalesReport", !.pc = "thrown"]
    /\ UNCHANGED <<Customers, scoringInputs, OldRecords, DailyReports, changes,
                   changedSinceRun, cleanRunBefore, computedBefore>>

----------------------------------------------------------------------------
(* Specifications *)

Init == CartInit /\ ChatInit /\ WidgetInit /\ PageInit /\ JobsInit /\ WebhookInit

Next ==
    \/ \E p \in Workers : processAbandonedCarts_query(p) /\ UNCHANGED <<webhook, scroll, chatVars, widgetVars, jobVars>>
    \/ \E p \in Workers : processAbandonedCarts_queryFails(p) /\ UNCHANGED <<webhook, scroll, chatVars, widgetVars, jobVars>>
    \/ \E p \in Workers : processAbandonedCarts_send(p) /\ UNCHANGED <<webhook, scroll, chatVars, widgetVars, jobVars>>
    \/ \E p \in Workers : sendSecondReminder_query(p) /\ UNCHANGED <<webhook, scroll, chatVars, widgetVars, jobVars>>
    \/ \E p \in Workers : sendSecondReminder_queryFails(p) /\ UNCHANGED <<webhook, scroll, chatVars, widgetVars, jobVars>>
    \/ \E p \in Workers : sendSecondReminder_send(p) /\ UNCHANGED <<webhook, scroll, chatVars, widgetVars, jobVars>>
    \/ \E p \in Workers : post_bulkRecovery_query(p) /\ UNCHANGED <<webhook, scroll, chatVars, widgetVars, jobVars>>
    \/ \E p \in Workers : post_bulkRecovery_queryFails(p) /\ UNCHANGED <<webhook, scroll, chatVars, widgetVars, jobVars>>
    \/ \E p \in Workers : post_bulkRecovery_send(p) /\ UNCHANGED <<webhook, scroll, chatVars, widgetVars, jobVars>>
    \/ \E p \in Workers : Interrupt(p) /\ UNCHANGED <<webhook, scroll, chatVars, widgetVars, jobVars>>
    \/ \E p \in Workers : Reap(p) /\ UNCHANGED <<webhook, scroll, chatVars, widgetVars, jobVars>>
    \/ post_sendRecoveryEmail /\ UNCHANGED <<webhook, scroll, chatVars, widgetVars, jobVars>>
    \/ Checkout /\ UNCHANGED <<webhook, scroll, chatVars, widgetVars, jobVars>>
    \/ Tick /\ UNCHANGED <<webhook, scroll, chatVars, widgetVars, jobVars>>

\* the cart recovery jobs and endpoints
Spec == Init /\ [][Next]_vars

DispatchNext ==
    \/ Receive /\ UNCHANGED <<webhook, scroll, cartVars, widgetVars, jobVars>>
    \/ Dispatch /\ UNCHANGED <<webhook, scroll, cartVars, widgetVars, jobVars>>
    \/ ShowReply /\ UNCHANGED <<webhook, scroll, cartVars, widgetVars, jobVars>>

WebhookNext ==
    \/ post_cartAbandoned /\ UNCHANGED <<scroll, chatVars, widgetVars, jobVars>>
    \/ Checkout /\ UNCHANGED <<webhook, scroll, chatVars, widgetVars, jobVars>>
    \/ Tick /\ UNCHANGED <<webhook, scroll, chatVars, widgetVars, jobVars>>

\* the cart-abandonment webhook
SpecWebhook == Init /\ [][WebhookNext]_vars

RetentionNext ==
    \/ processAbandonedCarts_query(1) /\ UNCHANGED <<webhook, scroll, chatVars, widgetVars, jobVars>>
    \/ processAbandonedCarts_send(1) /\ UNCHANGED <<webhook, scroll, chatVars, widgetVars, jobVars>>
    \/ sendSecondReminder_query(1) /\ UNCHANGED <<webhook, scroll, chatVars, widgetVars, jobVars>>
    \/ sendSecondReminder_send(1) /\ UNCHANGED <<webhook, scroll, chatVars, widgetVars, jobVars>>
    \/ post_bulkRecovery_query(1) /\ UNCHANGED <<webhook, scroll, chatVars, widgetVars, jobVars>>
    \/ post_bulkRecovery_send(1) /\ UNCHANGED <<webhook, scroll, chatVars, widgetVars, jobVars>>
    \/ Reap(1) /\ UNCHANGED <<webhook, scroll, chatVars, widgetVars, jobVars>>
    \/ post_sendRecoveryEmail /\ UNCHANGED <<webhook, scroll, chatVars, widgetVars, jobVars>>
    \/ Checkout /\ UNCHANGED <<webhook, scroll, chatVars, widgetVars, jobVars>>
    \/ TickFar /\ UNCHANGED <<webhook, scroll, chatVars, widgetVars, jobVars>>
    \/ cleanOldData_query /\ UNCHANGED <<webhook, scroll, cartVars, chatVars, widgetVars>>
    \/ cleanOldData_remove /\ UNCHANGED <<webhook, scroll, now, pass, committed, emailedRecovered, chatVars, widgetVars>>
    \/ JobReturns /\ UNCHANGED <<webhook, scroll, cartVars, chatVars, widgetVars>>

\* the stored carts over the retention period: the recovery passes and
\* endpoints, checkout and cleanOldData
SpecRetention == Init /\ [][RetentionNext]_vars

\* the intent dispatcher on its own
SpecDispatch == Init /\ [][DispatchNext]_vars

ChatNext ==
    \/ initializeChatBot /\ UNCHANGED <<webhook, scroll, cartVars, jobVars>>
    \/ sendMessage_begin /\ UNCHANGED <<webhook, scroll, cartVars, jobVars, pageVars>>
    \/ \E i \in 1..Len(turns) : trackCustomerInteraction_resolves(i) /\ UNCHANGED <<webhook, scroll, cartVars, jobVars, pageVars>>
    \/ \E i \in 1..Len(turns) : trackCustomerInteraction_rejects(i) /\ UNCHANGED <<webhook, scroll, cartVars, jobVars, pageVars>>
    \/ \E i \in 1..Len(turns) : trackCustomerInteraction_hangs(i) /\ UNCHANGED <<webhook, scroll, cartVars, jobVars, pageVars>>
    \/ handleQuickAction_begin /\ UNCHANGED <<webhook, scroll, cartVars, jobVars, pageVars>>
    \/ \E i \in 1..Len(turns) : timer_fires(i) /\ UNCHANGED <<webhook, scroll, cartVars, jobVars, pageVars>>
    \/ \E i \in 1..Len(turns) : timer_resumes(i) /\ UNCHANGED <<webhook, scroll, cartVars, jobVars, pageVars>>
    \/ DisplayRecommendations /\ UNCHANGED <<webhook, scroll, cartVars, jobVars, pageVars>>

\* the chat widget and the recommendation repeater
SpecChat == Init /\ [][ChatNext]_vars

\* a pending call that can settle does, and a timer that was set fires
ChatFairness ==
    /\ \A i \in 1..MaxTurns :
          WF_vars(i <= Len(turns) /\ timer_fires(i) /\ UNCHANGED <<webhook, scroll, cartVars, jobVars, pageVars>>)
    /\ \A i \in 1..MaxTurns :
          WF_vars(i <= Len(turns) /\ timer_resumes(i) /\ UNCHANGED <<webhook, scroll, cartVars, jobVars, pageVars>>)
    /\ \A i \in 1..MaxTurns :
          WF_vars(i <= Len(turns)
                    /\ (\/ trackCustomerInteraction_resolves(i)
                        \/ trackCustomerInteraction_rejects(i)
                        \/ trackCustomerInteraction_hangs(i))
                    /\ UNCHANGED <<webhook, scroll, cartVars, jobVars, pageVars>>)

FairSpecChat == SpecChat /\ ChatFairness

SessionsNext ==
    \/ initializeChatBot /\ UNCHANGED <<webhook, scroll, cartVars, jobVars>>
    \/ initializeChatBot_again /\ UNCHANGED <<webhook, scroll, cartVars, jobVars>>
    \/ sendMessage_begin /\ UNCHANGED <<webhook, scroll, cartVars, jobVars, pageVars>>
    \/ \E i \in 1..Len(turns) : trackCustomerInteraction_resolves(i) /\ UNCHANGED <<webhook, scroll, cartVars, jobVars, pageVars>>
    \/ handleQuickAction_begin /\ UNCHANGED <<webhook, scroll, cartVars, jobVars, pageVars>>
    \/ \E i \in 1..Len(turns) : timer_fires(i) /\ UNCHANGED <<webhook, scroll, cartVars, jobVars, pageVars>>
    \/ \E i \in 1..Len(turns) : timer_resumes(i) /\ UNCHANGED <<webhook, scroll, cartVars, jobVars, pageVars>>

\* the chat widget when initializeChatBot runs again for another visitor
SpecSessions == Init /\ [][SessionsNext]_vars

\* what the page code of salesBotClient.js leaves alone
PageCode == <<webhook, panel, cartVars, chatVars, jobVars, ready, messages, turns, trackCalls,
              display, sessionStart>>

RepliesNext ==
    \/ initializeChatBot /\ UNCHANGED <<webhook, scroll, cartVars, jobVars>>
    \/ sendMessage_begin /\ UNCHANGED <<webhook, scroll, cartVars, jobVars, pageVars>>
    \/ \E i \in 1..Len(turns) : trackCustomerInteraction_resolves(i) /\ UNCHANGED <<webhook, scroll, cartVars, jobVars, pageVars>>
    \/ handleQuickAction_begin /\ UNCHANGED <<webhook, scroll, cartVars, jobVars, pageVars>>
    \/ \E i \in 1..Len(turns) : timer_fires(i) /\ UNCHANGED <<webhook, scroll, cartVars, jobVars, pageVars>>
    \/ \E i \in 1..Len(turns) : timer_resumes(i) /\ UNCHANGED <<webhook, scroll, cartVars, jobVars, pageVars>>

\* the chat widget of one session whose tracking calls succeed
SpecReplies == Init /\ [][RepliesNext]_vars

\* a pending tracking call settles, a timer that was set fires and the
\* backend call of a reply settles.  For the two steps of the timer callback
\* weak fairness is written out, with the condition under which the step can
\* be taken in the place of ENABLED.
RepliesFairness ==
    \A i \in 1..MaxTurns :
        /\ WF_vars(i <= Len(turns) /\ trackCustomerInteraction_resolves(i)
                      /\ UNCHANGED <<webhook, scroll, cartVars, jobVars, pageVars>>)
        /\ \/ []<>(~(i <= Len(turns) /\ FiresNext(i)))
           \/ []<><<i <= Len(turns) /\ timer_fires(i)
                      /\ UNCHANGED <<webhook, scroll, cartVars, jobVars, pageVars>>>>_vars
        /\ \/ []<>(~(i <= Len(turns) /\ turns[i].pc = "calling"))
           \/ []<><<i <= Len(turns) /\ timer_resumes(i)
                      /\ UNCHANGED <<webhook, scroll, cartVars, jobVars, pageVars>>>>_vars

FairSpecReplies == SpecReplies /\ RepliesFairness

PanelNext ==
    \/ initializeChatBot /\ UNCHANGED <<webhook, scroll, cartVars, jobVars>>
    \/ toggleChat /\ UNCHANGED <<webhook, scroll, cartVars, jobVars, pageVars>>
    \/ closeChat /\ UNCHANGED <<webhook, scroll, cartVars, jobVars, pageVars>>
    \/ sendMessage_begin /\ UNCHANGED <<webhook, scroll, cartVars, jobVars, pageVars>>
    \/ sendMessage_blank /\ UNCHANGED <<webhook, scroll, cartVars, jobVars, pageVars>>
    \/ \E i \in 1..Len(turns) : trackCustomerInteraction_resolves(i) /\ UNCHANGED <<webhook, scroll, cartVars, jobVars, pageVars>>
    \/ \E i \in 1..Len(turns) : timer_fires(i) /\ UNCHANGED <<webhook, scroll, cartVars, jobVars, pageVars>>
    \/ \E i \in 1..Len(turns) : timer_resumes(i) /\ UNCHANGED <<webhook, scroll, cartVars, jobVars, pageVars>>

\* the buttons and the input of the chat widget
SpecPanel == Init /\ [][PanelNext]_vars

ScrollNext ==
    \/ initializeSalesBot /\ UNCHANGED PageCode
    \/ scrollEvent /\ UNCHANGED PageCode
    \/ \E i \in 1..Len(scroll.listeners) : scrollTracked_resolves(i) /\ UNCHANGED PageCode
    \/ \E i \in 1..Len(scroll.listeners) : scrollTracked_rejects(i) /\ UNCHANGED PageCode
    \/ PageLoad /\ UNCHANGED PageCode

\* the scroll listener of a page
SpecScroll == Init /\ [][ScrollNext]_vars

PageNext ==
    \/ initializeSalesBot /\ UNCHANGED PageCode
    \/ initializeChatBot /\ UNCHANGED <<webhook, scroll, cartVars, jobVars>>
    \/ trackProductView /\ UNCHANGED PageCode
    \/ trackAddToCart /\ UNCHANGED PageCode
    \/ mouseout /\ UNCHANGED PageCode
    \/ PageLoad /\ UNCHANGED PageCode

\* the page code of a visitor's browser session
SpecPage == Init /\ [][PageNext]_vars

SegmentsNext ==
    \/ ChangeInputs /\ UNCHANGED <<webhook, scroll, cartVars, chatVars, widgetVars>>
    \/ updateCustomerSegments_query /\ UNCHANGED <<webhook, scroll, cartVars, chatVars, widgetVars>>
    \/ updateCustomerSegments_queryFails /\ UNCHANGED <<webhook, scroll, cartVars, chatVars, widgetVars>>
    \/ \E scored \in ScoreOutcomes, stored \in StoreOutcomes :
          updateCustomerSegments_item(scored, stored)
            /\ UNCHANGED <<webhook, scroll, cartVars, chatVars, widgetVars>>
    \/ JobReturns /\ UNCHANGED <<webhook, scroll, cartVars, chatVars, widgetVars>>

\* the segmentation job on its schedule
SpecSegments == Init /\ [][SegmentsNext]_vars

\* the job is started again and again, a started run is carried on, and no
\* store or scoring failure lasts for ever
SegmentsFairness ==
    /\ SF_vars(updateCustomerSegments_query /\ UNCHANGED <<webhook, scroll, cartVars, chatVars, widgetVars>>)
    /\ \A k \in 0..(SegmentPageLimit - 1) :
          SF_vars(job.idx = k /\ updateCustomerSegments_item("success", "ok")
                    /\ UNCHANGED <<webhook, scroll, cartVars, chatVars, widgetVars>>)
    /\ WF_vars(JobReturns /\ UNCHANGED <<webhook, scroll, cartVars, chatVars, widgetVars>>)

FairSpecSegments == SpecSegments /\ SegmentsFairness

SegmentWritesNext ==
    \/ SegmentsNext
    \/ EditProfile /\ UNCHANGED <<webhook, scroll, cartVars, chatVars, widgetVars>>

\* the segmentation job next to the other writers of the Customers collection
SpecSegmentWrites == Init /\ [][SegmentWritesNext]_vars

JobsNext ==
    \/ SegmentsNext
    \/ cleanOldData_query /\ UNCHANGED <<webhook, scroll, cartVars, chatVars, widgetVars>>
    \/ cleanOldData_queryFails /\ UNCHANGED <<webhook, scroll, cartVars, chatVars, widgetVars>>
    \/ cleanOldData_remove /\ UNCHANGED <<webhook, scroll, now, pass, committed, emailedRecovered, chatVars, widgetVars>>
    \/ cleanOldData_removeFails /\ UNCHANGED <<webhook, scroll, cartVars, chatVars, widgetVars>>
    \/ generateDailySalesReport /\ UNCHANGED <<webhook, scroll, cartVars, chatVars, widgetVars>>
    \/ generateDailySalesReport_fails /\ UNCHANGED <<webhook, scroll, cartVars, chatVars, widgetVars>>

\* the scheduled jobs outside cart recovery
SpecJobs == Init /\ [][JobsNext]_vars

----------------------------------------------------------------------------
(* Properties of the cart recovery passes *)

Range(s) == {s[i] : i \in 1..Len(s)}
Ids(items) == {items[i]._id : i \in 1..Len(items)}
NoDuplicates(s) == \A i, j \in 1..Len(s) : i # j => s[i] # s[j]
Concurrent(p, q) == q \in pass[p].conc \/ p \in pass[q].conc

\* The order of the tests as the design document gives it; the second
\* place is shared by the recommendation and product-search patterns.
IntentOrder ==
    <<{"greeting"}, {"recommendations", "productSearch"}, {"discount"},
      {"cart"}, {"shipping"}, {"hours"}, {"location"}, {"thanks"}, {"bye"},
      {"help"}>>

MatchesPlace(s, k) == \E name \in IntentOrder[k] : INTENT_PATTERNS(name, s)

\* the first place of IntentOrder with a pattern matching s; 0 when none does
FirstPlace(s) ==
    IF \E k \in 1..Len(IntentOrder) : MatchesPlace(s, k)
    THEN CHOOSE k \in 1..Len(IntentOrder) :
            /\ MatchesPlace(s, k)
            /\ \A j \in 1..(k - 1) : ~MatchesPlace(s, j)
    ELSE 0

\* the replies that belong to each place of IntentOrder, by their text
RepliesOfPlace(k) ==
    CASE k = 0 -> {RESPONSES_fallback[n] : n \in 1..Len(RESPONSES_fallback)}
      [] k = 1 -> {RESPONSES_greeting[n] : n \in 1..Len(RESPONSES_greeting)}
      [] k = 2 -> {ProductsText, MenuText}
      [] k = 3 -> {OfferText, NoOfferText, DealsText}
      [] k = 4 -> {CartText}
      [] k = 5 -> {RESPONSES_shipping}
      [] k = 6 -> {RESPONSES_hours}
      [] k = 7 -> {RESPONSES_location}
      [] k = 8 -> {RESPONSES_thanks[n] : n \in 1..Len(RESPONSES_thanks)}
      [] k = 9 -> {RESPONSES_bye[n] : n \in 1..Len(RESPONSES_bye)}
      [] k = 10 -> {HelpText}

\* the backend calls that belong to each place
CallsOfPlace(k) ==
    CASE k = 2 -> {"getPersonalizedRecommendations", "getTrendingProducts"}
      [] k = 3 -> {"getPersonalizedOffer"}
      [] OTHER -> {"none"}

\* C1: for every message the reply of processUserInput is one of the replies
\* of the first pattern, in the order greeting, recommendation/product-search,
\* discount, cart, shipping, hours, location, thanks, bye, help, that matches
\* the message, and only that pattern's handler is called; later patterns
\* that also match have no say.
C1_FirstMatchingIntentReplies ==
    response # NoReply =>
        /\ response.text \in RepliesOfPlace(FirstPlace(userInput))
        /\ engineCall \in CallsOfPlace(FirstPlace(userInput))

\* a message matching both the recommendation and the help pattern was
\* answered by the recommendation handler
C1_Witness ==
    /\ INTENT_PATTERNS("recommendations", userInput)
    /\ INTENT_PATTERNS("help", userInput)
    /\ ~INTENT_PATTERNS("greeting", userInput)
    /\ response.type = "products"
    /\ engineCall = "getPersonalizedRecommendations"

\* C2: two passes that run concurrently and both selected a cart do not both
\* deliver a reminder email for it
C2_OneSenderAmongConcurrentPasses ==
    \A p, q \in Workers :
        (p # q /\ Concurrent(p, q)) =>
            \A c \in Ids(pass[p].items) \cap Ids(pass[q].items) :
                ~(c \in Range(pass[p].sent) /\ c \in Range(pass[q].sent))

\* two processAbandonedCarts runs selected the same cart before either
\* reached it, and each delivered a reminder for it
C2_Witness ==
    \E p, q \in Workers : \E c \in CartIds :
        /\ p # q
        /\ pass[p].kind = "processAbandonedCarts"
        /\ pass[q].kind = "processAbandonedCarts"
        /\ Concurrent(p, q)
        /\ c \in Range(pass[p].sent) \cap Range(pass[q].sent)
        /\ AbandonedCarts[c].reminderCount = 2

\* C3: a batch pass never calls sendCartRecoveryEmail for a cart whose
\* recovered flag was already stored as true when the pass ran its query
C3_NoCallForCartRecoveredBeforePass ==
    \A p \in Workers :
        /\ Range(pass[p].calls) \subseteq Ids(pass[p].items)
        /\ \A i \in 1..Len(pass[p].items) :
              pass[p].items[i]._id \in Range(pass[p].calls)
                  => pass[p].items[i].recovered = FALSE

\* a pass ran its query while an otherwise eligible cart was recovered, and
\* has called sendCartRecoveryEmail for another cart
C3_Witness ==
    \E p \in Workers : \E c \in CartIds :
        /\ pass[p].kind = "processAbandonedCarts"
        /\ pass[p].calls # <<>>
        /\ c \notin Ids(pass[p].items)
        /\ AbandonedCarts[c].recovered
        /\ ~AbandonedCarts[c].emailSent
        /\ pass[p].queryNow - AbandonedCarts[c].abandonedAt = OneHour

\* C4: no reminder email goes out for a cart whose recovered flag is true at
\* the moment of sending
C4_NoEmailForRecoveredCart == emailedRecovered = FALSE

\* a pass selected a cart, checkout marked it recovered, and the pass then
\* reached it: the call was made and no email went out
C4_Witness ==
    \E p \in Workers : \E i \in 1..Len(pass[p].items) :
        LET c == pass[p].items[i]._id
        IN  /\ pass[p].items[i].recovered = FALSE
            /\ c \in pass[p].refused
            /\ c \notin Range(pass[p].sent)
            /\ AbandonedCarts[c].reminderCount = 0

\* C5: reminderCount never decreases, no pass raises a cart's count more than
\* once, and the count never exceeds 2
C5_ReminderCountSteps ==
    [][ /\ \A c \in CartIds :
            /\ AbandonedCarts'[c].reminderCount >= AbandonedCarts[c].reminderCount
            /\ AbandonedCarts'[c].reminderCount <= 2
        /\ \A p \in Workers : NoDuplicates(pass'[p].sent) ]_vars

\* a sendSecondReminder pass has delivered a cart's second reminder: its
\* count went from 1 to 2
C5_Witness ==
    \E p \in Workers : \E c \in Range(pass[p].sent) :
        /\ pass[p].kind = "sendSecondReminder"
        /\ AbandonedCarts[c].reminderCount = 2

\* C6: every query that selects carts for a first recovery email bounds the
\* time since abandonment on both sides
C6_FirstEmailQueriesAreWindowed ==
    \A p \in Workers :
        pass[p].kind \in {"processAbandonedCarts", "post_bulkRecovery"} =>
            \A i \in 1..Len(pass[p].items) :
                /\ pass[p].queryNow - pass[p].items[i].abandonedAt >= OneHour
                /\ pass[p].queryNow - pass[p].items[i].abandonedAt <= TwentyFourHours

\* post_bulkRecovery selected a cart abandoned more than 24 hours before
C6_Witness ==
    \E p \in Workers : \E i \in 1..Len(pass[p].items) :
        /\ pass[p].kind = "post_bulkRecovery"
        /\ pass[p].queryNow - pass[p].items[i].abandonedAt > TwentyFourHours

\* the step in which worker p runs the query of a pass of the given kind
Queries(p, kind) ==
    /\ pass[p].pc = "idle"
    /\ pass'[p].kind = kind
    /\ pass'[p].pc \in {"loop", "done"}

\* C7: processAbandonedCarts selects exactly the carts that at query time
\* are not emailed, not recovered and abandoned between 1 and 24 hours ago,
\* both ends included, and calls sendCartRecoveryEmail for selected carts only
C7_FirstReminderSelection ==
    [][ \A p \in Workers :
          /\ Queries(p, "processAbandonedCarts") =>
                Ids(pass'[p].items) =
                    {c \in DOMAIN AbandonedCarts :
                        /\ ~AbandonedCarts[c].emailSent
                        /\ ~AbandonedCarts[c].recovered
                        /\ now - AbandonedCarts[c].abandonedAt \in 1..24}
          /\ pass'[p].kind = "processAbandonedCarts" =>
                Range(pass'[p].calls) \subseteq Ids(pass'[p].items) ]_vars

\* a pass that selected a cart exactly 24 hours old and has called
\* sendCartRecoveryEmail for it, while the other cart was left out
C7_Witness ==
    \E p \in Workers : \E i \in 1..Len(pass[p].items) :
        /\ pass[p].kind = "processAbandonedCarts"
        /\ pass[p].queryNow - pass[p].items[i].abandonedAt = 24
        /\ pass[p].items[i]._id \in Range(pass[p].calls)
        /\ Len(pass[p].items) < MaxCarts

C9_NoReselectionAfterCommit ==
    \A p \in Workers :
        pass[p].kind \in ScheduledJobs =>
            /\ Ids(pass[p].items) \cap pass[p].committedAtStart = {}
            /\ Range(pass[p].calls) \cap pass[p].committedAtStart = {}

\* a pass that started after a pass of its kind had committed one cart, and
\* that has processed the other cart
C9_Witness ==
    \E p \in Workers :
        /\ pass[p].kind \in ScheduledJobs
        /\ pass[p].committedAtStart # {}
        /\ pass[p].calls # <<>>

\* C10: within one pass sendCartRecoveryEmail is called at most once for each
\* selected cart, and a call that returned failure or threw is counted as a
\* failed attempt: the pass counts as successful only the calls that
\* delivered, and a pass that reports failures counts all the others
C10_OneCallFailuresCounted ==
    \A p \in Workers :
        /\ NoDuplicates(pass[p].calls)
        /\ Len(pass[p].calls) <= Len(pass[p].items)
        /\ pass[p].successCount = Len(pass[p].sent)
        /\ pass[p].kind \in {"processAbandonedCarts", "post_bulkRecovery"} =>
              pass[p].failCount = Len(pass[p].calls) - Len(pass[p].sent)

\* a finished sendSecondReminder pass that made one call, which was refused
\* because checkout had recovered the cart, and reports one reminder sent
C10_Witness ==
    \E p \in Workers :
        /\ pass[p].kind = "sendSecondReminder"
        /\ pass[p].pc = "done"
        /\ Len(pass[p].calls) = 1
        /\ pass[p].sent = <<>>
        /\ pass[p].refused # {}
        /\ pass[p].successCount = 1

\* a pass of one of the two kinds that report processed, successful and failed
\* has returned its summary
Summarised(p) ==
    /\ pass[p].kind \in {"processAbandonedCarts", "post_bulkRecovery"}
    /\ pass[p].pc = "done"

\* C27: the summary processAbandonedCarts and post_bulkRecovery return has
\* processed = successful + failed = the number of carts the query selected,
\* failed counts once each cart whose call did not report success, and the
\* errors list of post_bulkRecovery has exactly one entry for each such cart
C27_SummaryAddsUp ==
    \A p \in Workers :
        Summarised(p) =>
            /\ pass[p].processed = pass[p].successCount + pass[p].failCount
            /\ pass[p].processed = Len(pass[p].items)
            /\ Range(pass[p].calls) = Ids(pass[p].items)
            /\ NoDuplicates(pass[p].calls)
            /\ pass[p].failCount =
                    Cardinality(Range(pass[p].calls) \ Range(pass[p].sent))
            /\ pass[p].kind = "post_bulkRecovery" =>
                  /\ NoDuplicates(pass[p].errors)
                  /\ Range(pass[p].errors) =
                        Range(pass[p].calls) \ Range(pass[p].sent)

\* post_bulkRecovery has returned after two carts, one delivered and one not
C27_Witness ==
    \E p \in Workers :
        /\ pass[p].kind = "post_bulkRecovery"
        /\ pass[p].pc = "done"
        /\ Len(pass[p].items) = 2
        /\ Len(pass[p].sent) = 1
        /\ Len(pass[p].errors) = 1

\* C28: the sent count sendSecondReminder returns is the number of selected
\* carts whose sendCartRecoveryEmail call reported success
C28_SentCountsSuccesses ==
    \A p \in Workers :
        (pass[p].kind = "sendSecondReminder" /\ pass[p].pc = "done") =>
            pass[p].successCount = Cardinality(Range(pass[p].sent))

\* sendSecondReminder has returned sent: 1 after one call, for a cart that
\* was still due its second reminder, whose email was not delivered
C28_Witness ==
    \E p \in Workers :
        /\ pass[p].kind = "sendSecondReminder"
        /\ pass[p].pc = "done"
        /\ Len(pass[p].calls) = 1
        /\ pass[p].sent = <<>>
        /\ pass[p].refused = {}
        /\ pass[p].successCount = 1
        /\ AbandonedCarts[pass[p].calls[1]].reminderCount = 1

----------------------------------------------------------------------------
(* The engines the chat calls *)

\* a session of a known customer: an id is set and it is not a guest id
KnownCustomer == customerId \in CustomerIds \ {"null", "guest_session_1"}

\* C17: a message answered by the recommendation handler asks for
\* personalized recommendations, for the session's customerId and 3 products,
\* exactly when the customerId is set and is no guest id, and for 3 trending
\* products otherwise; a message answered by the discount handler asks for
\* the personalized offer of the session's customerId.
C17_EngineRequests ==
    response # NoReply =>
        /\ FirstPlace(userInput) = 2 =>
              IF KnownCustomer
              THEN /\ engineCall = "getPersonalizedRecommendations"
                   /\ engineArgs = <<customerId, 3>>
              ELSE /\ engineCall = "getTrendingProducts"
                   /\ engineArgs = <<3>>
        /\ FirstPlace(userInput) = 3 =>
              /\ engineCall = "getPersonalizedOffer"
              /\ engineArgs = <<customerId>>

\* a guest asked for a recommendation and was served from the trending
\* products
C17_Witness ==
    /\ customerId = "guest_session_1"
    /\ FirstPlace(userInput) = 2
    /\ engineCall = "getTrendingProducts"
    /\ response.type = "products"

AllIntents ==
    {"greeting", "productSearch", "recommendations", "discount", "help",
     "cart", "price", "shipping", "hours", "location", "thanks", "bye"}

\* C18: a message that matches none of the intent patterns is answered with
\* a text reply taken from the fallback responses, and no engine is called
C18_UnmatchedGetsFallback ==
    (response # NoReply /\ \A name \in AllIntents : ~INTENT_PATTERNS(name, userInput))
        => /\ response.type = "text"
           /\ \E n \in 1..Len(RESPONSES_fallback) : response.text = RESPONSES_fallback[n]
           /\ engineCall = "none"

\* a message that matches no pattern has been answered
C18_Witness ==
    /\ userInput # <<>>
    /\ \A name \in AllIntents : ~INTENT_PATTERNS(name, userInput)
    /\ response.type = "text"
    /\ response.text = RESPONSES_fallback[2]

\* C19: whatever the engine call came back with, the handlers return a reply
\* of type text, products or offer, and after a call that did not succeed
\* (success=false, an empty list, an exception) the reply is a canned text
C19_HandlersDegradeToText ==
    (response # NoReply /\ engineCall # "none") =>
        /\ response.type \in {"text", "products", "offer"}
        /\ engineOutcome \in {"unsuccessful", "empty", "throws"} =>
              /\ response.type = "text"
              /\ response.text \in {MenuText, NoOfferText, DealsText}

\* the offer call threw and the customer was pointed to the deals page
C19_Witness ==
    /\ engineCall = "getPersonalizedOffer"
    /\ engineOutcome = "throws"
    /\ response = TextReply(DealsText)

\* C24: for a message that matches one of the tested patterns, every
\* invocation of processUserInput with the same message, customer and engine
\* result returns the reply this one returned
C24_MatchedIntentsDeterministic ==
    (response # NoReply /\ FirstPlace(userInput) # 0) =>
        \A out \in processUserInput(userInput) :
            out.outcome = engineOutcome => out.reply = response

\* a greeting was answered with the second of the greeting responses
C24_Witness ==
    /\ FirstPlace(userInput) = 1
    /\ engineCall = "none"
    /\ response = TextReply(RESPONSES_greeting[2])
    /\ TextReply(RESPONSES_greeting[1]) \in
            {out.reply : out \in processUserInput(userInput)}

----------------------------------------------------------------------------
(* Properties of the chat widget and the recommendation repeater *)

\* C15: a typed message whose chat_message recording failed, or never
\* completes, still gets its bot reply added to the conversation
C15_ReplyDespiteFailedRecording ==
    \A i \in 1..MaxTurns :
        (i <= Len(turns) /\ turns[i].pc \in {"rejected", "hung"})
            ~> (i <= Len(turns) /\ turns[i].pc = "replied")

\* the recording of a typed message was rejected: the conversation holds the
\* user message and no reply to it
C15_Witness ==
    /\ Len(turns) = 1
    /\ turns[1].via = "typed"
    /\ turns[1].pc = "rejected"
    /\ Len(messages) = 2
    /\ messages[2].sender = "user"

UserMessages == {k \in 1..Len(messages) : messages[k].sender = "user"}

\* C16: trackCustomerInteraction was called with 'chat_message' for every
\* user message in the conversation, typed or written by a quick action
C16_EveryUserMessageRecorded ==
    Cardinality(UserMessages) = Len(trackCalls)

\* the conversation holds the user message of the deals button and nothing
\* was recorded
C16_Witness ==
    /\ \E k \in 1..Len(messages) :
          /\ messages[k].sender = "user"
          /\ messages[k].text = QuickActionDealsText
    /\ trackCalls = <<>>

\* the personalized call was made and did not come back with products
PersonalizedFailed(r) ==
    /\ r.calls # <<>>
    /\ r.calls[1] = "getPersonalizedRecommendations"
    /\ r.outcome \in {"unsuccessful", "empty", "throws"}

\* C20: when the personalized recommendation call fails for a known
\* customer, the chat and the recommendation repeater go on to ask for the
\* trending products
C20_DegradesToTrending ==
    /\ \A i \in 1..Len(turns) :
          (turns[i].pc = "replied" /\ PersonalizedFailed(turns[i]))
              => \E k \in 1..Len(turns[i].calls) :
                    turns[i].calls[k] = "getTrendingProducts"
    /\ (display.customer = "member_1" /\ PersonalizedFailed(display))
          => \E k \in 1..Len(display.calls) :
                display.calls[k] = "getTrendingProducts"

\* a member asked the chat for a recommendation, the personalized call threw,
\* and the reply is the menu text with no products
C20_Witness ==
    /\ customerId = "member_1"
    /\ \E i \in 1..Len(turns) :
          /\ turns[i].pc = "replied"
          /\ turns[i].calls = <<"getPersonalizedRecommendations">>
          /\ turns[i].outcome = "throws"
          /\ turns[i].shown = "none"
    /\ \E k \in 1..Len(messages) : messages[k].text = MenuText

----------------------------------------------------------------------------
(* Properties of the scheduled jobs *)

\* C11: none of the five batch entry points throws to its caller, also when
\* a store query or insert fails
C11_JobsNeverThrow ==
    /\ job.pc # "thrown"
    /\ \A p \in Workers :
          pass[p].kind \in ScheduledJobs => pass[p].pc # "thrown"

\* the insert of the daily report (or one of its queries) failed and the job
\* has thrown
C11_Witness ==
    /\ job.name = "generateDailySalesReport"
    /\ job.pc = "thrown"
    /\ DailyReports = 0

\* C12: a job in which the handling of one item failed still goes through
\* every remaining item and returns its summary
C12_ItemFailureDoesNotAbort ==
    (job.pc \in {"done", "thrown"} /\ job.itemFailed) =>
        /\ job.pc = "done"
        /\ job.idx = Len(job.items)

\* cleanOldData has thrown after a remove failed in its first collection:
\* that page was not finished and the later collections were not cleaned
C12_Witness ==
    /\ job.name = "cleanOldData"
    /\ job.pc = "thrown"
    /\ job.itemFailed
    /\ job.phase = 1
    /\ job.idx < Len(job.items)
    /\ OldRecords[2] # {}

Current(id) == Customers[id].segment = SegmentOf(Score(scoringInputs[id]))

\* C14: once the scoring inputs have stopped changing, the scheduled runs
\* bring every customer's stored segment to the computed one, and it stays so
C14_SegmentsConverge == <>[](\A id \in CustomerRecordIds : Current(id))

\* a run without failures has returned, the inputs have not changed since its
\* query, and a customer outside its page still has the segment of its old
\* inputs
C14_Witness ==
    /\ job.pc = "idle"
    /\ cleanRunBefore
    /\ ~changedSinceRun
    /\ changes = MaxChanges
    /\ \E id \in CustomerRecordIds : ~Current(id)

\* C29: a segmentation write leaves every field of the customer record other
\* than segment, valueScore and lastSegmentUpdate as it was immediately
\* before the write, also when another writer changed it after the query
C29_WriteKeepsOtherFields ==
    [][ \A id \in CustomerRecordIds :
          (job'.updated > job.updated /\ Customers'[id] # Customers[id])
              => Customers'[id].profile = Customers[id].profile ]_vars

\* a run has written the segment of a customer whose profile another writer
\* had changed after the run's query: the stored profile is the old one again
C29_Witness ==
    \E id \in CustomerRecordIds :
        /\ job.name = "updateCustomerSegments"
        /\ id \in job.clobbered
        /\ job.updated = 1
        /\ Customers[id].profile = 0
        /\ Customers[id].segment # "New"

\* C30: after a run in which every score computation and every write
\* succeeded, the stored segment and the stored valueScore of each processed
\* customer are the segment and the score the run computed for it
C30_StoredIsComputed ==
    (job.name = "updateCustomerSegments" /\ job.pc = "done" /\ ~job.itemFailed) =>
        \A t \in job.computed :
            /\ Customers[t[1]].segment = t[3]
            /\ Customers[t[1]].valueScore = t[2]

\* a run without failures has returned; it computed a higher score in the
\* same tier for a customer and the stored valueScore is the old one
C30_Witness ==
    \E t \in job.computed :
        /\ job.name = "updateCustomerSegments"
        /\ job.pc = "done"
        /\ ~job.itemFailed
        /\ job.handled = SegmentPageLimit
        /\ Customers[t[1]].segment = t[3]
        /\ t[3] = "VIP"
        /\ Customers[t[1]].valueScore = VipFrom
        /\ t[2] = VipFrom + 1

----------------------------------------------------------------------------
(* Properties of the sessions in the browser *)

\* C23: the conversation log holds the messages of the running session only:
\* none that was added before initializeChatBot ran for it
C23_LogHoldsOneSession ==
    \A k \in 1..Len(messages) : k > sessionStart

\* initializeChatBot has run for a member after a guest's conversation: the
\* log holds the guest's message and the reply to it before the new greeting
C23_Witness ==
    /\ customerId = "member_1"
    /\ sessionStart = 3
    /\ Len(messages) > sessionStart
    /\ messages[2].sender = "user"
    /\ messages[3].sender = "bot"
    /\ messages[sessionStart + 1].text = GreetingText

\* the customerIds of members
MemberIds == Members \ {"null"}

\* C25: every interaction recorded for an anonymous visitor carries the
\* customerId made of 'guest_' and the session id the session store holds
C25_GuestIdFromSession ==
    \A e \in interactions :
        e.customerId \notin MemberIds =>
            /\ sessionStore.salesBotSessionId # "null"
            /\ e.customerId = GuestId(sessionStore.salesBotSessionId)

\* a product view was recorded before the session had its id, a page view
\* after: the same anonymous visitor is recorded under two customerIds
C25_Witness ==
    /\ sessionStore.salesBotSessionId = "session_1"
    /\ [customerId |-> "guest_null", type |-> "product_view"] \in interactions
    /\ [customerId |-> "guest_session_1", type |-> "page_view"] \in interactions

\* C26: the exit-intent popup is shown at most once in a browser session
C26_OnePopupPerSession == page.popups <= 1

\* the popup was shown twice on the first page of the session, the second
\* time with the session's exitIntentShown item already set
C26_Witness ==
    /\ page.loads = 1
    /\ page.leaves = 2
    /\ page.popups = 2
    /\ sessionStore.exitIntentShown

----------------------------------------------------------------------------
(* Properties of the cart-abandonment webhook *)

\* the request has been answered
Answered == webhook.status # "none"

\* the single call the handler makes for a request it accepts
CallFor(q) == <<q.customerId, q.cartItems, OrZero(q.cartTotal)>>

----------------------------------------------------------------------------
(* Properties of the retention of abandoned carts *)

\* the step is a remove of cleanOldData in the AbandonedCarts collection
CleanOldDataRemoves ==
    /\ job.name = "cleanOldData"
    /\ job.pc = "loop"
    /\ CleanedCollections[job.phase] = "AbandonedCarts"
    /\ job'.deleted[job.phase] = job.deleted[job.phase] + 1

\* C22: a cart's record leaves the AbandonedCarts collection only in a
\* remove of cleanOldData, and only if the cart is recovered and was
\* abandoned more than ninety days before; a cart that is not recovered,
\* whatever its reminderCount, is still stored after every step of every job
\* and endpoint
C22_OnlyOldRecoveredCartsRemoved ==
    [][\A id \in DOMAIN AbandonedCarts :
          /\ id \notin DOMAIN AbandonedCarts' =>
                /\ CleanOldDataRemoves
                /\ AbandonedCarts[id].recovered
                /\ AbandonedCarts[id].abandonedAt < now - NinetyDays
          /\ ~AbandonedCarts[id].recovered => id \in DOMAIN AbandonedCarts'
      ]_vars

\* past the ninetieth day cleanOldData has removed a recovered cart and gone
\* through the collection, and a cart as old that was never recovered and is
\* stuck at two reminders is still stored
C22_Witness ==
    /\ job.name = "cleanOldData"
    /\ job.pc = "done"
    /\ job.deleted[3] = 1
    /\ now > NinetyDays
    /\ \E id \in DOMAIN AbandonedCarts :
          /\ ~AbandonedCarts[id].recovered
          /\ AbandonedCarts[id].reminderCount = MaxReminders
          /\ AbandonedCarts[id].abandonedAt < now - NinetyDays

----------------------------------------------------------------------------
(* Properties of the replies of the chat widget *)

\* the bot messages of the log
BotMessages == {k \in 1..Len(messages) : messages[k].sender = "bot"}

\* the turn's user message still awaits its bot reply
Pending(i) == turns[i].pc \in {"tracking", "timer", "calling"}

\* C31: with tracking calls that succeed, every non-empty message sent and
\* every quick-action click is eventually answered, and by exactly one bot
\* message added to the log
C31_EveryMessageGetsOneReply ==
    /\ [](\A i \in 1..Len(turns) :
            /\ turns[i].replies <= 1
            /\ turns[i].pc = "replied" =>
                  /\ turns[i].replies = 1
                  /\ turns[i].at \in BotMessages)
    /\ [](Cardinality(BotMessages) =
             Cardinality({i \in 1..Len(turns) : turns[i].replies = 1})
               + (IF ready THEN 1 ELSE 0))
    /\ \A i \in 1..MaxTurns :
          (i <= Len(turns)) ~> (i <= Len(turns) /\ turns[i].pc = "replied")

\* a typed message and a quick action have both been answered: the log
\* holds the greeting and one bot message for each
C31_Witness ==
    /\ Len(turns) = 2
    /\ turns[1].via = "typed" /\ turns[1].pc = "replied"
    /\ turns[2].via = "quick" /\ turns[2].pc = "replied"
    /\ Cardinality(BotMessages) = 3

\* C32: the bot replies stand in the log in the order of the user messages
\* they answer
C32_RepliesInMessageOrder ==
    \A i, j \in 1..Len(turns) :
        (i < j /\ turns[j].pc = "replied") =>
            /\ turns[i].pc = "replied"
            /\ turns[i].at < turns[j].at

\* two messages are in flight with handlers of different length: the first
\* awaits its recommendation call, the timer of the second has been set
C32_Witness ==
    /\ Len(turns) = 2
    /\ turns[1].pc = "calling"
    /\ turns[2].pc = "timer"
    /\ turns[2].via = "quick" /\ turns[2].input = "help"

\* C33: the typing indicator is shown exactly while some user message
\* awaits its bot reply
C33_TypingWhileReplyPending ==
    (panel.typingIndicator = "shown") <=> (\E i \in 1..Len(turns) : Pending(i))

\* a message and a quick action were sent one after the other, the first
\* timer has fired and the second has not
C33_Witness ==
    /\ Len(turns) = 2
    /\ turns[1].via = "typed" /\ turns[1].pc = "replied"
    /\ turns[2].via = "quick" /\ turns[2].pc = "timer"

\* C37: the reply a quick action gets is of a type that processUserInput
\* gives for the user text the quick action has put into the log
C37_QuickActionAsTyped ==
    \A i \in 1..Len(turns) :
        (turns[i].via = "quick" /\ turns[i].pc = "replied") =>
            \E out \in processUserInput(QuickActionText(turns[i].input)) :
                out.reply.type = messages[turns[i].at].type

\* the deals quick action has been answered with an offer
C37_Witness ==
    \E i \in 1..Len(turns) :
        /\ turns[i].via = "quick" /\ turns[i].input = "deals"
        /\ turns[i].pc = "replied"
        /\ messages[turns[i].at].type = "offer"

----------------------------------------------------------------------------
(* Properties of the buttons and the input of the chat widget *)

\* C34: the widget is shown exactly if chatState.isOpen, the toggle button
\* exactly if not; never both shown, never both hidden
C34_WidgetXorToggle ==
    /\ (panel.chatWidget = "shown") <=> panel.isOpen
    /\ (panel.chatToggleBtn = "shown") <=> ~panel.isOpen

\* the widget was opened with the toggle button and closed with the close
\* button
C34_Witness ==
    /\ panel.openedTracked
    /\ panel.lastClick = "close"
    /\ ~panel.isOpen
    /\ panel.chatToggleBtn = "shown"

\* the text has a character that is not white space
NotBlank(text) == \E k \in 1..Len(text) : text[k] \notin WhiteSpace

\* C35: sendMessage with an input that is empty or white space only changes
\* nothing: the log, the tracked messages, the typing indicator and the
\* pending replies stay as they are, and no user message or tracked message
\* is ever blank
C35_BlankInputChangesNothing ==
    [][/\ panel'.blanks > panel.blanks =>
             /\ UNCHANGED <<messages, turns, trackCalls>>
             /\ panel'.typingIndicator = panel.typingIndicator
       /\ \A k \in 1..Len(messages') :
             messages'[k].sender = "user" => NotBlank(messages'[k].text)
       /\ \A k \in 1..Len(trackCalls') : NotBlank(trackCalls'[k])
      ]_vars

\* sendMessage was called on a blank input before and after a text was sent
\* and answered
C35_Witness ==
    /\ panel.blanks = MaxBlanks
    /\ Len(turns) = 1
    /\ turns[1].pc = "replied"
    /\ panel.typingIndicator = "hidden"

----------------------------------------------------------------------------
(* Properties of scroll depth tracking *)

\* C36: for one registration, each threshold is recorded at most once, and
\* only when a scroll event has reached it
C36_ThresholdsOnceAndReached ==
    /\ \A j, k \in 1..Len(scroll.recorded) :
          j # k => scroll.recorded[j] # scroll.recorded[k]
    /\ \A k \in 1..Len(scroll.recorded) :
          /\ scroll.recorded[k] <= scroll.deepest
          /\ \E j \in 1..Len(scrollThresholds) :
                scroll.recorded[k] = scrollThresholds[j]

\* a second scroll event was handled while the call of the first was
\* pending, and all four thresholds have been recorded
C36_Witness ==
    /\ Len(scroll.listeners) >= 2
    /\ scroll.listeners[1].pc = "awaiting"
    /\ scroll.listeners[2].pc = "awaiting"
    /\ Len(scroll.recorded) = 4

====
